---- MODULE Spec2Model ----
(***************************************************************************)
(* Verification model of the function-invocation and auto-tool-calling     *)
(* core of the kernel SDK:                                                  *)
(*   - GoogleAIChatCompletion.get_chat_message_contents, the auto-invoke    *)
(*     loop (specification Spec);                                           *)
(*   - OpenAIStreamingChatMessageContent.__add__ and                        *)
(*     AzureStreamingChatMessageContent.__add__, the streaming chunk        *)
(*     combination (specification ChunkSpec).                               *)
(***************************************************************************)
EXTENDS Integers, Sequences, FiniteSets, TLC

(***************************************************************************)
(* Bounds of the model.                                                     *)
(***************************************************************************)
\* largest maximum_auto_invoke_attempts the caller configures
MaxAttempts == 2
\* largest number of parts in one candidate of a service response
MaxParts == 2
\* largest number of responses (candidate_count) the caller requests
MaxResponses == 2
\* largest number of chunks folded into one running chunk
MaxChunks == 2

(***************************************************************************)
(* State.                                                                   *)
(***************************************************************************)
VARIABLES
    \* ---- the auto-invoke loop ----
    pc,                 \* position of get_chat_message_contents
    function_choice_behavior, \* "none" (None), "manual" or "auto" (auto_invoke_kernel_functions)
    maximum_auto_invoke_attempts,
    number_of_responses,\* the candidate count held by the settings
    kernel,             \* TRUE iff kwargs["kernel"] is a Kernel
    available_functions,\* TRUE iff the kernel offers at least one function
    tools,              \* settings.tools is set (tools are offered on a send)
    chat_history,       \* ChatHistory.messages
    request_index,      \* the loop variable of the for statement
    completions,        \* the completions of the last send
    function_calls,     \* the function calls of the current round
    tasks,              \* state of each invoke_function_call of the round
    returned,           \* what the call returned to its caller
    sends,              \* log of the sends: tools offered, count requested
    tool_rounds,        \* number of rounds in which tools were executed
    overtaken,          \* an invocation completed before one requested earlier
    \* ---- the streaming chunk combination ----
    cls,                \* class of the chunks: "openai" or "azure"
    acc,                \* the running combined chunk
    prev,               \* the left operand of the last __add__
    incoming,           \* the right operand of the last __add__
    outcome,            \* result of the last __add__: "none", "ok" or the error raised
    added,              \* number of __add__ performed
    stream,             \* the chunks combined so far, in arrival order
    \* ---- KernelFunction.invoke ----
    invoke_pc,          \* position of invoke
    is_prompt,          \* the function is a prompt function
    parameters,         \* self.parameters: name and required of each
    kernel_arguments,   \* the KernelArguments: what each name holds
    input_defaults,     \* input variables of the prompt template config with a default
    function_arguments, \* the names gathered for the call of self.function
    called,             \* number of calls of self.function
    callable_raised,    \* the exception self.function raised, or None
    function_result,    \* the FunctionResult invoke returned
    invoke_raised,      \* the exception that left invoke, or None
    \* ---- get_streaming_chat_message_contents ----
    yielded,            \* what the generator has yielded: one text per chunk
    \* ---- FunctionsView and the functions offered to the model ----
    semantic_functions, \* plugin name -> the prompt functions added, in order
    native_functions,   \* plugin name -> the native functions added, in order
    list_filters,       \* the filters of the last listing of functions
    listed,             \* the functions have been listed for the model
    offered_functions,  \* the result of that listing
    \* ---- OpenAIChatCompletionBase._should_return_completions_response ----
    response_completions, \* the completions handed to the method: the kind of each
    tool_call_behavior, \* auto_invoke_kernel_functions of the ToolCallBehavior
    should_return,      \* "True" or "False" as the method returned, "unset" before the call
    \* ---- Plan.invoke_async ----
    plan_pc,            \* position of invoke_async
    function,           \* the function given to __init__, or "none"
    function_attribute, \* what reading self._function gives when none was set
    outputs_are_sets,   \* the _outputs of the plan and its steps support &
    _steps,             \* self._steps: the function of each step
    _has_next_step,     \* self._has_next_step, assigned in __init__
    _next_step_index,   \* self._next_step_index
    _state,             \* self._state: the functions applied to the input
    executed,           \* the steps invoked, in the order of their invocation
    plan_error,         \* the exception invoke_async raised, or "none"
    \* ---- ChatHistory ----
    history_pc,         \* "idle", or "constructed" once a ChatHistory exists
    system_message,     \* the system_message given to the constructor, or "none"
    given_messages,     \* the messages given to the constructor
    added_messages,     \* the messages of the add calls, in call order
    messages,           \* ChatHistory.messages
    \* ---- KernelFilterExtension ----
    filter_pc,          \* "idle", "adding", "running" or "done"
    filter_lists,       \* the three lists of filters, by filter type
    add_order,          \* the filters of the add_filter calls, by type, in call order
    filter_error,       \* the exception of the last add_filter, or "none"
    run_type,           \* the filter_type given to construct_call_stack
    callee,             \* the callable that is called next
    awaiting,           \* the filters that wait for their next to return
    call_trace,         \* the parts run so far, in order
    filter_call,        \* the last add_filter or remove_filter call and its arguments
    lists_before,       \* the three lists at the entry of that call
    \* ---- GuidedConversation.step_conversation ----
    gc_pc,              \* position of step_conversation
    current_failed_decision_attempts,
    tool_names,         \* parsed_result["tool_names"] of the current plan
    regular_plugins,    \* the regular plugins _execute_plan returned (plugins)
    terminal_plugins,   \* the terminal plugins _execute_plan returned
    plugin_index,       \* position of the for statement over plugins
    plugins_executed,   \* the plugins executed for the current plan, in order
    resource_increments,\* number of increment_resource calls of the step
    gc_output,          \* the GCOutput returned
    \* ---- KernelFunction.invoke_stream ----
    stream_function,    \* the function has a stream function
    stream_msgs,        \* what invoke_stream has yielded, in order
    \* ---- OpenAIChatResponse.parse_choice ----
    parse_pc,           \* "idle", "parsing" or "raised"
    _parsed_content,    \* choice index -> the content stored, if any
    _tool_calls,        \* choice index -> tool index -> the tool call stored, if any
    parsed_deltas,      \* the choices given to parse_choice and parsed, in order
    \* ---- KernelFunction.from_prompt._local_func ----
    prompt_pc,          \* position of the invocation of the prompt function
    prompt_service,     \* "chat", "text", "other" or "none" (None)
    caller_history,     \* the chat_history object of the caller's arguments
    given_history,      \* that object as it was when invoke was called
    local_history,      \* the chat_history variable of _local_func
    service_input,      \* what the service was called with
    prompt_error        \* the exception raised, or "none"

loopVars == <<pc, function_choice_behavior, maximum_auto_invoke_attempts,
              number_of_responses, kernel, available_functions, tools,
              chat_history, request_index, completions, function_calls,
              tasks, returned, sends, tool_rounds, overtaken>>
chunkVars == <<cls, acc, prev, incoming, outcome, added, stream>>
invokeVars == <<invoke_pc, is_prompt, parameters, kernel_arguments,
                input_defaults, function_arguments, called, callable_raised,
                function_result, invoke_raised>>
streamVars == <<yielded>>
registryVars == <<semantic_functions, native_functions, list_filters, listed,
                  offered_functions>>
decisionVars == <<response_completions, tool_call_behavior, should_return>>
planVars == <<plan_pc, function, function_attribute, outputs_are_sets, _steps,
              _has_next_step, _next_step_index, _state, executed, plan_error>>
historyVars == <<history_pc, system_message, given_messages, added_messages, messages>>
filterVars == <<filter_pc, filter_lists, add_order, filter_error, run_type, callee,
                awaiting, call_trace, filter_call, lists_before>>
conversationVars == <<gc_pc, current_failed_decision_attempts, tool_names, regular_plugins,
                      terminal_plugins, plugin_index, plugins_executed,
                      resource_increments, gc_output>>
functionStreamVars == <<stream_function, stream_msgs>>
responseVars == <<parse_pc, _parsed_content, _tool_calls, parsed_deltas>>
promptVars == <<prompt_pc, prompt_service, caller_history, given_history,
                local_history, service_input, prompt_error>>
vars == <<loopVars, chunkVars, invokeVars, streamVars, registryVars, decisionVars, planVars, historyVars, filterVars, conversationVars, functionStreamVars, responseVars, promptVars>>

\* what an action of one component leaves alone: the other components
notLoopVars == <<chunkVars, invokeVars, streamVars, registryVars, decisionVars, planVars, historyVars, filterVars, conversationVars, functionStreamVars, responseVars, promptVars>>
notChunkVars == <<loopVars, invokeVars, streamVars, registryVars, decisionVars, planVars, historyVars, filterVars, conversationVars, functionStreamVars, responseVars, promptVars>>
notInvokeVars == <<loopVars, chunkVars, streamVars, registryVars, decisionVars, planVars, historyVars, filterVars, conversationVars, functionStreamVars, responseVars, promptVars>>
notStreamVars == <<loopVars, chunkVars, invokeVars, registryVars, decisionVars, planVars, historyVars, filterVars, conversationVars, functionStreamVars, responseVars, promptVars>>
notRegistryVars == <<loopVars, chunkVars, invokeVars, streamVars, decisionVars, planVars, historyVars, filterVars, conversationVars, functionStreamVars, responseVars, promptVars>>
notDecisionVars == <<loopVars, chunkVars, invokeVars, streamVars, registryVars, planVars, historyVars, filterVars, conversationVars, functionStreamVars, responseVars, promptVars>>
notPlanVars == <<loopVars, chunkVars, invokeVars, streamVars, registryVars, decisionVars, historyVars, filterVars, conversationVars, functionStreamVars, responseVars, promptVars>>
notHistoryVars == <<loopVars, chunkVars, invokeVars, streamVars, registryVars, decisionVars, planVars, filterVars, conversationVars, functionStreamVars, responseVars, promptVars>>
notFilterVars == <<loopVars, chunkVars, invokeVars, streamVars, registryVars, decisionVars, planVars, historyVars, conversationVars, functionStreamVars, responseVars, promptVars>>
notConversationVars == <<loopVars, chunkVars, invokeVars, streamVars, registryVars, decisionVars, planVars, historyVars, filterVars, functionStreamVars, responseVars, promptVars>>
notFunctionStreamVars == <<loopVars, chunkVars, invokeVars, streamVars, registryVars, decisionVars, planVars, historyVars, filterVars, conversationVars, responseVars, promptVars>>
notFunctionStreamInvokeVars == <<loopVars, chunkVars, streamVars, registryVars, decisionVars, planVars, historyVars, filterVars, conversationVars, responseVars, promptVars>>
notResponseVars == <<loopVars, chunkVars, invokeVars, streamVars, registryVars, decisionVars, planVars, historyVars, filterVars, conversationVars, functionStreamVars, promptVars>>
notPromptVars == <<loopVars, chunkVars, invokeVars, streamVars, registryVars, decisionVars, planVars, historyVars, filterVars, conversationVars, functionStreamVars, responseVars>>

(***************************************************************************)
(* Content model.                                                           *)
(***************************************************************************)
\* names the service uses for the functions, and the kernel's names for them
GeminiNames == {"math_Add"}

\* the id of an item that has none
NoId == [name |-> "", idx |-> -1]

\* the text of the tool result that reports unparsable arguments
MalformedText == "The tool call arguments are malformed, please try again."

format_gemini_function_name_to_kernel_function_fully_qualified_name(n) ==
    CASE n = "math_Add" -> "math-Add"
      [] n = "time_Now" -> "time-Now"
      [] OTHER -> n

TextContent(t) == [kind |-> "text", id |-> NoId, name |-> "", body |-> t]

\* id = f"{part.function_call.name}_{idx}": the pair (name, index of the part)
FunctionCallContent(gname, idx) ==
    [kind |-> "call", id |-> [name |-> gname, idx |-> idx],
     name |-> format_gemini_function_name_to_kernel_function_fully_qualified_name(gname),
     body |-> "args"]

\* FunctionResultContent.from_function_call_content_and_result
FunctionResultContent(call, result) ==
    [kind |-> "result", id |-> call.id, name |-> call.name, body |-> result]

ChatMessageContent(role, items) == [role |-> role, items |-> items]

NoMessage == ChatMessageContent("", <<>>)
NoCompletions == [message |-> NoMessage, count |-> 0]

\* a part of a candidate: a text, a function call, or neither
TextPart == [text |-> "4", function_call |-> ""]
EmptyPart == [text |-> "", function_call |-> ""]
CallPart(n) == [text |-> "", function_call |-> n]

\* the items built from the parts of a candidate, idx the index of the first
RECURSIVE ItemsOfParts(_, _)
ItemsOfParts(parts, idx) ==
    IF parts = <<>> THEN <<>>
    ELSE LET part == Head(parts)
             rest == ItemsOfParts(Tail(parts), idx + 1)
         IN  IF part.text # "" THEN <<TextContent(part.text)>> \o rest
             ELSE IF part.function_call # ""
                  THEN <<FunctionCallContent(part.function_call, idx)>> \o rest
                  ELSE rest

create_chat_message_content(parts) ==
    ChatMessageContent("assistant", ItemsOfParts(parts, 0))

\* a variant that keeps only the first function call
FunctionCallsOf_FirstOnly(items) ==
    LET all == SelectSeq(items, LAMBDA item : item.kind = "call")
    IN  IF all = <<>> THEN <<>> ELSE <<all[1]>>

\* a variant that lists the function calls last to first
FunctionCallsOf_Reversed(items) ==
    LET all == SelectSeq(items, LAMBDA item : item.kind = "call")
    IN  [i \in 1..Len(all) |-> all[Len(all) + 1 - i]]

\* [item for item in items if isinstance(item, FunctionCallContent)]
FunctionCallsOf(items) == SelectSeq(items, LAMBDA item : item.kind = "call")

(***************************************************************************)
(* The completion service: an opaque collaborator.  It answers a send with  *)
(* a candidate of 1..MaxParts parts: at most one text part, then the        *)
(* function calls it requests.  It requests a function only when the send   *)
(* offered tools.                                                           *)
(***************************************************************************)
CallParts(k) == [i \in 1..k |-> CallPart("math_Add")]

Responses(offered) ==
    {<<TextPart>> \o CallParts(k) : k \in 0..(IF offered THEN MaxParts - 1 ELSE 0)}
    \cup {CallParts(k) : k \in 1..(IF offered THEN MaxParts ELSE 0)}
    \cup {<<EmptyPart>>}

\* what one send hands to the service
SendRecord(phase, offered, n) == [phase |-> phase, tools |-> offered, n |-> n]

\* _send_chat_request: the completions built from the response to a send
send_chat_request(parts, n) ==
    [message |-> create_chat_message_content(parts), count |-> n]

(***************************************************************************)
(* Initial state: the caller's history holds one user message, the caller's *)
(* settings are any the bounds allow.  A caller that handles the function   *)
(* calls itself may have put tools into the settings; with auto-invoke the  *)
(* tools come from the function choice configuration.                       *)
(***************************************************************************)
UserMessage == ChatMessageContent("user", <<TextContent("What is 2+2?")>>)

LoopInit ==
    /\ pc = "start"
    /\ function_choice_behavior \in {"none", "manual", "auto"}
    /\ maximum_auto_invoke_attempts \in 0..MaxAttempts
    /\ number_of_responses \in {1, MaxResponses}
    /\ kernel \in BOOLEAN
    /\ available_functions \in BOOLEAN
    /\ tools \in (IF function_choice_behavior = "auto" THEN {FALSE} ELSE BOOLEAN)
    /\ chat_history = <<UserMessage>>
    /\ request_index = 0
    /\ completions = NoCompletions
    /\ function_calls = <<>>
    /\ tasks = <<>>
    /\ returned = NoCompletions
    /\ sends = <<>>
    /\ tool_rounds = 0
    /\ overtaken = FALSE

LoopIdle ==
    /\ pc = "idle"
    /\ function_choice_behavior = "none"
    /\ maximum_auto_invoke_attempts = 0
    /\ number_of_responses = 1
    /\ kernel = FALSE
    /\ available_functions = FALSE
    /\ tools = FALSE
    /\ chat_history = <<>>
    /\ request_index = 0
    /\ completions = NoCompletions
    /\ function_calls = <<>>
    /\ tasks = <<>>
    /\ returned = NoCompletions
    /\ sends = <<>>
    /\ tool_rounds = 0
    /\ overtaken = FALSE

(***************************************************************************)
(* GoogleAIChatCompletion.get_chat_message_contents.  The coroutine is cut  *)
(* at its suspension points: the await of a send and the await of gather.   *)
(***************************************************************************)
\* update_settings_from_function_choice_configuration: tools are set only
\* when the configuration has available functions
update_settings_from_function_choice_configuration(avail, old) ==
    IF avail THEN TRUE ELSE old

\* a variant that runs the loop body once more
range_has_next_Inclusive(index, maximum) == index <= maximum

\* for request_index in range(maximum): the loop body runs for 0..maximum-1
range_has_next(index, maximum) == index < maximum

\* a variant that takes every function choice behavior for an auto-invoking one
auto_invoke_kernel_functions_AnyBehavior(behavior) == behavior # "none"

\* lines 115-118: the behavior is set and its auto_invoke_kernel_functions is true
auto_invoke_kernel_functions(behavior) == behavior = "auto"

\* a variant that never takes a response for one without function calls
no_function_calls_Never(fc) == FALSE

\* line 131: (fc_count := len(function_calls)) == 0
no_function_calls(fc) == Len(fc) = 0

\* a variant of the entry without the test of the kernel
Call_KernelNotTested ==
    /\ pc = "start"
    /\ IF ~auto_invoke_kernel_functions(function_choice_behavior)
       THEN /\ pc' = "await_plain"
            /\ sends' = Append(sends, SendRecord("plain", tools, number_of_responses))
            /\ UNCHANGED tools
       ELSE LET t == update_settings_from_function_choice_configuration(
                         available_functions, tools)
            IN  /\ tools' = t
                /\ IF range_has_next(0, maximum_auto_invoke_attempts)
                   THEN /\ pc' = "await_loop"
                        /\ sends' = Append(sends, SendRecord("loop", t, number_of_responses))
                   ELSE /\ pc' = "await_final"
                        /\ sends' = Append(sends, SendRecord("final", t, number_of_responses))
    /\ UNCHANGED <<function_choice_behavior, maximum_auto_invoke_attempts,
                   number_of_responses, kernel, available_functions,
                   chat_history, request_index, completions, function_calls,
                   tasks, returned, tool_rounds, overtaken>>
    /\ UNCHANGED notLoopVars

\* entry of the call up to its first await
Call ==
    /\ pc = "start"
    /\ IF ~auto_invoke_kernel_functions(function_choice_behavior)
       THEN /\ pc' = "await_plain"
            /\ sends' = Append(sends, SendRecord("plain", tools, number_of_responses))
            /\ UNCHANGED tools
       ELSE IF ~kernel
       THEN /\ pc' = "raised"
            /\ UNCHANGED <<sends, tools>>
       ELSE LET t == update_settings_from_function_choice_configuration(
                         available_functions, tools)
            IN  /\ tools' = t
                /\ IF range_has_next(0, maximum_auto_invoke_attempts)
                   THEN /\ pc' = "await_loop"
                        /\ sends' = Append(sends, SendRecord("loop", t, number_of_responses))
                   ELSE /\ pc' = "await_final"
                        /\ sends' = Append(sends, SendRecord("final", t, number_of_responses))
    /\ UNCHANGED <<function_choice_behavior, maximum_auto_invoke_attempts,
                   number_of_responses, kernel, available_functions,
                   chat_history, request_index, completions, function_calls,
                   tasks, returned, tool_rounds, overtaken>>
    /\ UNCHANGED notLoopVars

\* the response to the send of the non-auto-invoke path arrives (line 119)
ReceivePlain(parts) ==
    /\ pc = "await_plain"
    /\ completions' = send_chat_request(parts, sends[Len(sends)].n)
    /\ returned' = completions'
    /\ pc' = "returned"
    /\ UNCHANGED <<function_choice_behavior, maximum_auto_invoke_attempts,
                   number_of_responses, kernel, available_functions, tools,
                   chat_history, request_index, function_calls, tasks,
                   sends, tool_rounds, overtaken>>
    /\ UNCHANGED notLoopVars

\* the response to a send of the loop arrives (lines 128-142): the first
\* completion is appended to the history; with no function call the call
\* returns, otherwise one invoke_function_call per function call is started
ReceiveLoop(parts) ==
    /\ pc = "await_loop"
    /\ LET cs == send_chat_request(parts, sends[Len(sends)].n)
           h  == Append(chat_history, cs.message)
           fc == FunctionCallsOf(h[Len(h)].items)
       IN  /\ completions' = cs
           /\ chat_history' = h
           /\ function_calls' = fc
           /\ IF no_function_calls(fc)
              THEN /\ returned' = cs
                   /\ pc' = "returned"
                   /\ overtaken' = FALSE
                   /\ UNCHANGED <<tasks, tool_rounds>>
              ELSE /\ tasks' = [i \in 1..Len(fc) |-> "pending"]
                   /\ overtaken' = FALSE
                   /\ tool_rounds' = tool_rounds + 1
                   /\ pc' = "gathering"
                   /\ UNCHANGED returned
    /\ UNCHANGED <<function_choice_behavior, maximum_auto_invoke_attempts,
                   number_of_responses, kernel, available_functions, tools,
                   request_index, sends>>
    /\ UNCHANGED notLoopVars

\* ---- kernel.invoke_function_call, one per function call of the round ----
\* the outcomes of one invocation: a value, a value with the terminate flag
\* of the invocation context set, or unparsable arguments
Outcomes == {"value", "terminate", "malformed"}

\* the tool message an invocation adds for its function call
invoke_function_call_message(call, out) ==
    ChatMessageContent("tool",
        <<FunctionResultContent(call,
              IF out = "malformed" THEN MalformedText ELSE "result")>>)

\* the tool messages of the completed invocations, in the order of the
\* function calls of the response
RECURSIVE ToolMessages(_, _)
ToolMessages(fc, ts) ==
    IF fc = <<>> THEN <<>>
    ELSE (IF Head(ts) = "pending" THEN <<>>
          ELSE <<invoke_function_call_message(Head(fc), Head(ts))>>)
         \o ToolMessages(Tail(fc), Tail(ts))

\* one invocation of the round completes; the invocations complete in any order
ToolComplete(i, out) ==
    /\ pc = "gathering"
    /\ i \in 1..Len(tasks)
    /\ tasks[i] = "pending"
    /\ tasks' = [tasks EXCEPT ![i] = out]
    /\ overtaken' = (overtaken \/ \E j \in 1..(i - 1) : tasks[j] = "pending")
    /\ UNCHANGED <<pc, function_choice_behavior, maximum_auto_invoke_attempts,
                   number_of_responses, kernel, available_functions, tools,
                   chat_history, request_index, completions, function_calls,
                   returned, sends, tool_rounds>>
    /\ UNCHANGED notLoopVars

\* a variant that returns as soon as one awaitable has completed
gather_done_FirstCompleted(ts) == \E i \in 1..Len(ts) : ts[i] # "pending"

\* asyncio.gather returns once every awaitable it was given has completed
gather_done(ts) == \A i \in 1..Len(ts) : ts[i] # "pending"

\* a variant that takes the None of a call without result for a terminate
any_terminate_NoneCounts(ts) ==
    \E i \in 1..Len(ts) : ts[i] \in {"terminate", "malformed"}

\* a variant that ignores the terminate flag
any_terminate_Never(ts) == FALSE

\* any(result.terminate for result in results if result is not None)
any_terminate(ts) == \E i \in 1..Len(ts) : ts[i] = "terminate"

\* format_user_message for a message without image: one text part
format_user_message(message) == "ok"

\* format_assistant_message: the exception it raises for a message, or "ok"
format_assistant_message(message) ==
    LET text_items == SelectSeq(message.items, LAMBDA item : item.kind = "text")
        function_call_items == SelectSeq(message.items, LAMBDA item : item.kind = "call")
    IN  IF \E i \in 1..Len(message.items) : message.items[i].kind \notin {"text", "call"}
        THEN "ServiceInvalidRequestError"
        ELSE IF Len(text_items) > 1 THEN "ServiceInvalidRequestError"
        ELSE IF Len(function_call_items) > 1 THEN "ServiceInvalidRequestError"
        ELSE "ok"

\* format_tool_message: the exception it raises for a message, or "ok"
format_tool_message(message) ==
    IF message.items = <<>> THEN "IndexError"
    ELSE IF message.items[1].kind # "result" THEN "ValueError"
    ELSE "ok"

\* _prepare_chat_history_for_request: the exception the first message that
\* cannot be formatted raises, or "ok"
RECURSIVE prepare_chat_history_for_request(_)
prepare_chat_history_for_request(history) ==
    IF history = <<>> THEN "ok"
    ELSE LET message == Head(history)
             formatted ==
                 IF message.role = "system" THEN "ok"
                 ELSE IF message.role = "user" THEN format_user_message(message)
                 ELSE IF message.role = "assistant" THEN format_assistant_message(message)
                 ELSE IF message.role = "tool" THEN format_tool_message(message)
                 ELSE "ValueError"
         IN  IF formatted # "ok" THEN formatted
             ELSE prepare_chat_history_for_request(Tail(history))

\* gather returns (lines 134-148): on a terminate the call returns the
\* completions of the round; otherwise the next iteration sends again, or,
\* the range being exhausted, the else branch makes the final send.  The
\* send formats the history first (line 161): when that raises, nothing is
\* handed to the service and the exception leaves the call
GatherReturn ==
    /\ pc = "gathering"
    /\ gather_done(tasks)
    /\ chat_history' = chat_history \o ToolMessages(function_calls, tasks)
    /\ IF any_terminate(tasks)
       THEN /\ returned' = completions
            /\ pc' = "returned"
            /\ UNCHANGED <<request_index, sends>>
       ELSE /\ request_index' = request_index + 1
            /\ UNCHANGED returned
            /\ IF prepare_chat_history_for_request(chat_history') # "ok"
               THEN /\ pc' = "raised"
                    /\ UNCHANGED sends
               ELSE IF range_has_next(request_index + 1, maximum_auto_invoke_attempts)
               THEN /\ pc' = "await_loop"
                    /\ sends' = Append(sends, SendRecord("loop", tools, number_of_responses))
               ELSE /\ pc' = "await_final"
                    /\ sends' = Append(sends, SendRecord("final", tools, number_of_responses))
    /\ UNCHANGED <<function_choice_behavior, maximum_auto_invoke_attempts,
                   number_of_responses, kernel, available_functions, tools,
                   completions, function_calls, tasks, tool_rounds, overtaken>>
    /\ UNCHANGED notLoopVars

\* the response to the final send arrives (line 148): it is returned as is
ReceiveFinal(parts) ==
    /\ pc = "await_final"
    /\ completions' = send_chat_request(parts, sends[Len(sends)].n)
    /\ returned' = completions'
    /\ pc' = "returned"
    /\ UNCHANGED <<function_choice_behavior, maximum_auto_invoke_attempts,
                   number_of_responses, kernel, available_functions, tools,
                   chat_history, request_index, function_calls, tasks,
                   sends, tool_rounds, overtaken>>
    /\ UNCHANGED notLoopVars

\* a variant that restores the history the caller passed
SendFails_RollsBack ==
    /\ pc \in {"await_plain", "await_loop", "await_final"}
    /\ pc' = "raised"
    /\ chat_history' = <<UserMessage>>
    /\ UNCHANGED <<function_choice_behavior, maximum_auto_invoke_attempts,
                   number_of_responses, kernel, available_functions, tools,
                   request_index, completions, function_calls,
                   tasks, returned, sends, tool_rounds, overtaken>>
    /\ UNCHANGED notLoopVars

\* a send fails: generate_content_async raises and nothing catches it
SendFails ==
    /\ pc \in {"await_plain", "await_loop", "await_final"}
    /\ pc' = "raised"
    /\ UNCHANGED <<function_choice_behavior, maximum_auto_invoke_attempts,
                   number_of_responses, kernel, available_functions, tools,
                   chat_history, request_index, completions, function_calls,
                   tasks, returned, sends, tool_rounds, overtaken>>
    /\ UNCHANGED notLoopVars

\* whether the send awaited offered tools
Offered == sends # <<>> /\ sends[Len(sends)].tools

(***************************************************************************)
(* Streaming chunk combination.                                             *)
(*                                                                          *)
(* A chunk is a record of the fields __add__ reads.  None is the string     *)
(* "None" for role, encoding, finish_reason and a tool call's id; a content *)
(* is a record that says whether it is None and holds its text as a         *)
(* sequence of tokens, so that concatenation is \o.                         *)
(***************************************************************************)
None == "None"
NoContent == [none |-> TRUE, text |-> <<>>]
Content(t) == [none |-> FALSE, text |-> t]

\* content or ""
ContentOrEmpty(c) == IF c.none THEN <<>> ELSE c.text

ToolCall(id, arguments) == [id |-> id, arguments |-> arguments]

\* ToolCall.__add__: the id of the first that has one, the arguments joined
ToolCallAdd(t, u) ==
    ToolCall(IF t.id # None THEN t.id ELSE u.id, t.arguments \o u.arguments)

Chunk(ci, model, enc, role, content, fr, tcs) ==
    [choice_index |-> ci, ai_model_id |-> model, encoding |-> enc,
     role |-> role, content |-> content, finish_reason |-> fr,
     tool_calls |-> tcs]

NoChunk == Chunk(-1, None, None, None, NoContent, None, <<>>)

\* ---- a dict, as Python keeps it: keys in order of first insertion ----
DictKeys(d) == [i \in 1..Len(d) |-> d[i].key]

DictHas(d, k) == \E i \in 1..Len(d) : d[i].key = k

DictGet(d, k) == d[CHOOSE i \in 1..Len(d) : d[i].key = k].value

\* d[k] = v
DictSet(d, k, v) ==
    IF DictHas(d, k)
    THEN [i \in 1..Len(d) |-> IF d[i].key = k THEN [key |-> k, value |-> v] ELSE d[i]]
    ELSE Append(d, [key |-> k, value |-> v])

\* {t.id: t for t in tool_calls}
RECURSIVE DictOfToolCalls(_, _)
DictOfToolCalls(d, tcs) ==
    IF tcs = <<>> THEN d
    ELSE DictOfToolCalls(DictSet(d, Head(tcs).id, Head(tcs)), Tail(tcs))

\* list(tc.values())
DictValues(d) == [i \in 1..Len(d) |-> d[i].value]

\* the loop over other.tool_calls (lines 61-65): a fragment without id, or
\* with the id of the last key of self's calls, is added to that call; any
\* other fragment is stored under its own id
RECURSIVE MergeToolCalls(_, _, _)
MergeToolCalls(d, last_tc_id, news) ==
    IF news = <<>> THEN d
    ELSE LET new_tool == Head(news)
         IN  IF new_tool.id = None \/ new_tool.id = last_tc_id
             THEN MergeToolCalls(
                      DictSet(d, last_tc_id, ToolCallAdd(DictGet(d, last_tc_id), new_tool)),
                      last_tc_id, Tail(news))
             ELSE MergeToolCalls(DictSet(d, new_tool.id, new_tool),
                                 last_tc_id, Tail(news))

\* lines 56-68 of OpenAIStreamingChatMessageContent.__add__
OpenAIToolCalls(self, other) ==
    IF self.tool_calls # <<>>
    THEN LET tc == DictOfToolCalls(<<>>, self.tool_calls)
             last_tc_id == DictKeys(tc)[Len(tc)]
         IN  DictValues(MergeToolCalls(tc, last_tc_id, other.tool_calls))
    ELSE DictValues(DictOfToolCalls(<<>>, other.tool_calls))

\* the four checks both classes make before they combine (lines 47-54)
Incompatibility(self, other) ==
    IF self.choice_index # other.choice_index THEN "choice_index"
    ELSE IF self.ai_model_id # other.ai_model_id THEN "ai_model_id"
    ELSE IF self.encoding # other.encoding THEN "encoding"
    ELSE IF self.role # None /\ other.role # None /\ self.role # other.role THEN "role"
    ELSE "none"

\* OpenAIStreamingChatMessageContent.__add__: the exception it raises, or "ok"
OpenAIAddOutcome(self, other) ==
    IF Incompatibility(self, other) # "none" THEN "ContentAdditionException" ELSE "ok"

\* a variant that puts the content of the right operand first
OpenAIAdd_ContentSwapped(self, other) ==
    Chunk(self.choice_index, self.ai_model_id, self.encoding, self.role,
          Content(ContentOrEmpty(other.content) \o ContentOrEmpty(self.content)),
          IF self.finish_reason # None THEN self.finish_reason ELSE other.finish_reason,
          OpenAIToolCalls(self, other))

\* a variant in which the finish_reason of the right operand wins
OpenAIAdd_LastWins(self, other) ==
    Chunk(self.choice_index, self.ai_model_id, self.encoding, self.role,
          Content(ContentOrEmpty(self.content) \o ContentOrEmpty(other.content)),
          IF other.finish_reason # None THEN other.finish_reason ELSE self.finish_reason,
          OpenAIToolCalls(self, other))

\* lines 70-82: the combined chunk
OpenAIAdd(self, other) ==
    Chunk(self.choice_index, self.ai_model_id, self.encoding, self.role,
          Content(ContentOrEmpty(self.content) \o ContentOrEmpty(other.content)),
          IF self.finish_reason # None THEN self.finish_reason ELSE other.finish_reason,
          OpenAIToolCalls(self, other))

\* AzureStreamingChatMessageContent.__add__: its checks raise ValueError, and
\* "for index, tool in self.tool_calls" unpacks each tool call into two
\* names, which fails on the first one
AzureAddOutcome(self, other) ==
    IF Incompatibility(self, other) # "none" THEN "ValueError"
    ELSE IF self.tool_calls # <<>> THEN "UnpackError"
    ELSE "ok"

AzureAdd(self, other) ==
    Chunk(self.choice_index, self.ai_model_id, self.encoding, self.role,
          Content(ContentOrEmpty(self.content) \o ContentOrEmpty(other.content)),
          IF self.finish_reason # None THEN self.finish_reason ELSE other.finish_reason,
          other.tool_calls)

\* ---- the chunks a stream delivers ----
\* chunks that differ in the fields the checks compare
CompatChunks ==
    {Chunk(ci, m, e, "assistant", Content(<<"x">>), None, <<>>) :
        ci \in {0, 1}, m \in {"m1", "m2"}, e \in {None, "utf-8"}}
    \cup {Chunk(0, "m1", None, r, Content(<<"x">>), None, <<>>) : r \in {None, "tool"}}

\* chunks of one choice that differ in what they carry
EmptyChunk == Chunk(0, "m1", None, None, NoContent, None, <<>>)

PayloadChunks ==
    {EmptyChunk}
    \cup {Chunk(0, "m1", None, None, Content(t), None, <<>>) : t \in {<<"Hel">>, <<"lo">>}}
    \cup {Chunk(0, "m1", None, None, NoContent, fr, <<>>) : fr \in {"stop", "length"}}
    \cup {Chunk(0, "m1", None, None, NoContent, None, tcs) :
            tcs \in {<<ToolCall("a", <<"{">>)>>,
                     <<ToolCall(None, <<"}">>)>>,
                     <<ToolCall("b", <<"[">>)>>,
                     <<ToolCall("b", <<"[">>), ToolCall(None, <<"]">>)>>}}

Chunks == CompatChunks \cup PayloadChunks

ChunkIdle ==
    /\ cls = "none"
    /\ acc = NoChunk
    /\ prev = NoChunk
    /\ incoming = NoChunk
    /\ outcome = "none"
    /\ added = 0
    /\ stream = <<>>

\* the first chunk of a stream is the running chunk
ChunkInit ==
    /\ cls \in {"openai", "azure"}
    /\ acc \in Chunks
    /\ prev = NoChunk
    /\ incoming = NoChunk
    /\ outcome = "none"
    /\ added = 0
    /\ stream = <<acc>>

\* acc = acc + b for two OpenAIStreamingChatMessageContent
AddOpenAI(b) ==
    /\ cls = "openai"
    /\ outcome \in {"none", "ok"}
    /\ added < MaxChunks
    /\ prev' = acc
    /\ incoming' = b
    /\ outcome' = OpenAIAddOutcome(acc, b)
    /\ acc' = IF outcome' = "ok" THEN OpenAIAdd(acc, b) ELSE acc
    /\ added' = added + 1
    /\ stream' = IF outcome' = "ok" THEN Append(stream, b) ELSE stream
    /\ UNCHANGED cls
    /\ UNCHANGED notChunkVars

\* acc = acc + b for two AzureStreamingChatMessageContent
AddAzure(b) ==
    /\ cls = "azure"
    /\ outcome \in {"none", "ok"}
    /\ added < MaxChunks
    /\ prev' = acc
    /\ incoming' = b
    /\ outcome' = AzureAddOutcome(acc, b)
    /\ acc' = IF outcome' = "ok" THEN AzureAdd(acc, b) ELSE acc
    /\ added' = added + 1
    /\ stream' = IF outcome' = "ok" THEN Append(stream, b) ELSE stream
    /\ UNCHANGED cls
    /\ UNCHANGED notChunkVars

(***************************************************************************)
(* KernelFunction.invoke.                                                   *)
(*                                                                          *)
(* A parameter is its name and its required flag.  The names "kernel" and   *)
(* "chat_history" are two of the names gather_function_parameters fills by  *)
(* itself; "x" and "y" are parameters of the function's own.  An argument   *)
(* is absent, a string or a ChatHistory.  Exceptions are their class names. *)
(***************************************************************************)
\* largest number of parameters of a function
MaxParams == 2

CHAT_HISTORY_TAG == "chat_history"
Absent == "absent"
ParamNames == {"x", "y", "kernel", CHAT_HISTORY_TAG}
ArgNames == {"x", "y", CHAT_HISTORY_TAG}

KernelParameterMetadata(name, required) == [name |-> name, required |-> required]

\* the parameter lists of at most MaxParams parameters with distinct names
ParameterLists ==
    LET Params == {KernelParameterMetadata(n, r) : n \in ParamNames, r \in BOOLEAN}
    IN  {ps \in UNION {[1..k -> Params] : k \in 0..MaxParams} :
            \A i, j \in 1..Len(ps) : ps[i].name = ps[j].name => i = j}

\* the KernelArguments a caller passes
KernelArguments ==
    {a \in [ArgNames -> {Absent, "str", "ChatHistory"}] :
        a["x"] # "ChatHistory" /\ a["y"] # "ChatHistory"}

FunctionResult(value, error, args) ==
    [value |-> value, error |-> error, arguments |-> args]

NoResult == FunctionResult(None, None, {})

\* gather_function_parameters (lines 534-573), from the parameter at index i
\* on: the names gathered, or the exception it raises
RECURSIVE gather_function_parameters(_, _, _, _, _)
gather_function_parameters(ps, args, prompt, i, gathered) ==
    IF i > Len(ps) THEN [raised |-> None, names |-> gathered]
    ELSE LET param == ps[i]
         IN  IF param.name = "kernel"
             THEN gather_function_parameters(ps, args, prompt, i + 1,
                                             gathered \cup {param.name})
             ELSE IF param.name = CHAT_HISTORY_TAG
             THEN IF args[CHAT_HISTORY_TAG] \notin {Absent, "ChatHistory"}
                  THEN [raised |-> "ValueError", names |-> gathered]
                  ELSE gather_function_parameters(ps, args, prompt, i + 1,
                                                  gathered \cup {param.name})
             ELSE IF prompt
             THEN gather_function_parameters(ps, args, prompt, i + 1, gathered)
             ELSE IF args[param.name] # Absent
             THEN gather_function_parameters(ps, args, prompt, i + 1,
                                             gathered \cup {param.name})
             ELSE IF param.required
             THEN [raised |-> "ValueError", names |-> gathered]
             ELSE gather_function_parameters(ps, args, prompt, i + 1, gathered)

\* add_default_values (lines 575-580): the defaults of the input variables
\* that the gathered arguments lack
add_default_values(names, defaults) == names \cup defaults

\* the outcomes of self.function: a native callable returns or raises;
\* _local_func (lines 278-329) returns the completions, or raises because
\* the service is None, the template fails to render, the service raises
\* (the exception is logged and raised again) or is of neither kind
CallableOutcomes(prompt) ==
    IF prompt
    THEN {"completions", "service_none", "render_error", "service_error",
          "invalid_service"}
    ELSE {"value", "raise"}

\* the exception of an outcome of self.function, None when it returns
raised_by(out) ==
    CASE out = "raise" -> "Exception"
      [] out = "service_none" -> "ValueError"
      [] out = "render_error" -> "TemplateRenderException"
      [] out = "service_error" -> "ServiceResponseException"
      [] out = "invalid_service" -> "ValueError"
      [] OTHER -> None

\* a variant without the except clause: the exception leaves invoke
invoke_result_Propagates(out, names, passed) ==
    IF raised_by(out) # None
    THEN [raised |-> raised_by(out), result |-> NoResult]
    ELSE [raised |-> None,
          result |-> FunctionResult(out, None,
                         IF out = "completions" THEN passed ELSE names)]

\* lines 483-496 of invoke: an exception of self.function is caught and
\* becomes a FunctionResult without value, with the gathered arguments; a
\* value is wrapped with the gathered arguments; a prompt function returns
\* the FunctionResult _local_func built, which holds the KernelArguments
invoke_result(out, names, passed) ==
    IF raised_by(out) # None
    THEN [raised |-> None, result |-> FunctionResult(None, raised_by(out), names)]
    ELSE [raised |-> None,
          result |-> FunctionResult(out, None,
                         IF out = "completions" THEN passed ELSE names)]

InvokeIdle ==
    /\ invoke_pc = "idle"
    /\ is_prompt = FALSE
    /\ parameters = <<>>
    /\ kernel_arguments = [n \in ArgNames |-> Absent]
    /\ input_defaults = {}
    /\ function_arguments = {}
    /\ called = 0
    /\ callable_raised = None
    /\ function_result = NoResult
    /\ invoke_raised = None

\* a function and the arguments of one call of invoke; only a prompt
\* function has a prompt template config
InvokeInit ==
    /\ invoke_pc = "start"
    /\ is_prompt \in BOOLEAN
    /\ parameters \in ParameterLists
    /\ kernel_arguments \in KernelArguments
    /\ input_defaults \in (IF is_prompt THEN SUBSET {"x"} ELSE {{}})
    /\ function_arguments = {}
    /\ called = 0
    /\ callable_raised = None
    /\ function_result = NoResult
    /\ invoke_raised = None

\* lines 477-482: the parameters are gathered, outside the try statement
InvokeGather ==
    /\ invoke_pc = "start"
    /\ LET g == gather_function_parameters(parameters, kernel_arguments, is_prompt, 1, {})
           withDefaults == IF is_prompt
                           THEN add_default_values(g.names, input_defaults)
                           ELSE g.names
       IN  IF g.raised # None
           THEN /\ invoke_pc' = "raised"
                /\ invoke_raised' = g.raised
                /\ UNCHANGED function_arguments
           ELSE /\ invoke_pc' = "calling"
                /\ function_arguments' =
                      IF is_prompt THEN withDefaults \cup {CHAT_HISTORY_TAG}
                      ELSE withDefaults
                /\ UNCHANGED invoke_raised
    /\ UNCHANGED <<is_prompt, parameters, kernel_arguments, input_defaults, called,
                   callable_raised, function_result>>
    /\ UNCHANGED notInvokeVars

\* lines 483-496: self.function is called and awaited
CallableCompletes(out) ==
    /\ invoke_pc = "calling"
    /\ out \in CallableOutcomes(is_prompt)
    /\ called' = called + 1
    /\ callable_raised' = raised_by(out)
    /\ LET r == invoke_result(out, function_arguments,
                              {n \in ArgNames : kernel_arguments[n] # Absent})
       IN  /\ invoke_raised' = r.raised
           /\ function_result' = r.result
           /\ invoke_pc' = IF r.raised # None THEN "raised" ELSE "returned"
    /\ UNCHANGED <<is_prompt, parameters, kernel_arguments, input_defaults,
                   function_arguments>>
    /\ UNCHANGED notInvokeVars

AllOutcomes == CallableOutcomes(TRUE) \cup CallableOutcomes(FALSE)

(***************************************************************************)
(* GoogleAIChatCompletion.get_streaming_chat_message_contents (lines        *)
(* 213-247).  The generator makes one streaming request and yields what     *)
(* arrives; the request is made without tools, so the service answers with  *)
(* text.                                                                    *)
(***************************************************************************)
StreamIdle == yielded = <<>>

\* the caller's settings and history, the generator not yet started
StreamInit ==
    /\ pc = "stream_start"
    /\ function_choice_behavior \in {"none", "manual", "auto"}
    /\ maximum_auto_invoke_attempts \in 0..MaxAttempts
    /\ number_of_responses \in {1, MaxResponses}
    /\ kernel \in BOOLEAN
    /\ available_functions \in BOOLEAN
    /\ tools \in (IF function_choice_behavior = "auto" THEN {FALSE} ELSE BOOLEAN)
    /\ chat_history = <<UserMessage>>
    /\ request_index = 0
    /\ completions = NoCompletions
    /\ function_calls = <<>>
    /\ tasks = <<>>
    /\ returned = NoCompletions
    /\ sends = <<>>
    /\ tool_rounds = 0
    /\ overtaken = FALSE
    /\ yielded = <<>>

\* the texts of the chunks of a streamed answer
ChunkTexts == {"Hel", "lo"}

\* lines 220-223 and 234-244: the streaming request; generate_content_async
\* is called with stream=True and without tools and tool_config
StreamCall ==
    /\ pc = "stream_start"
    /\ sends' = Append(sends, SendRecord("stream", FALSE, number_of_responses))
    /\ pc' = "streaming"
    /\ UNCHANGED <<function_choice_behavior, maximum_auto_invoke_attempts,
                   number_of_responses, kernel, available_functions, tools,
                   chat_history, request_index, completions, function_calls,
                   tasks, returned, tool_rounds, overtaken>>
    /\ UNCHANGED notLoopVars

\* lines 225-226 and 246-247: a chunk arrives and is yielded as it is, its
\* content the text of the first part (line 272)
StreamChunk(text) ==
    /\ pc = "streaming"
    /\ Len(yielded) < MaxChunks
    /\ yielded' = Append(yielded, text)
    /\ UNCHANGED notStreamVars

\* the response is exhausted: the generator ends
StreamEnd ==
    /\ pc = "streaming"
    /\ pc' = "returned"
    /\ UNCHANGED <<function_choice_behavior, maximum_auto_invoke_attempts,
                   number_of_responses, kernel, available_functions, tools,
                   chat_history, request_index, completions, function_calls,
                   tasks, returned, sends, tool_rounds, overtaken>>
    /\ UNCHANGED notLoopVars

\* the streaming request or the read of a chunk fails
StreamFails ==
    /\ pc = "streaming"
    /\ pc' = "raised"
    /\ UNCHANGED <<function_choice_behavior, maximum_auto_invoke_attempts,
                   number_of_responses, kernel, available_functions, tools,
                   chat_history, request_index, completions, function_calls,
                   tasks, returned, sends, tool_rounds, overtaken>>
    /\ UNCHANGED notLoopVars

(***************************************************************************)
(* FunctionsView (functions_view.py) and the listing of the functions that  *)
(* are offered to a model.                                                  *)
(***************************************************************************)
\* largest number of add_function calls on one FunctionsView
MaxFunctions == 3

PluginNames == {"math", "time"}
FunctionNames == {"Add", "Now"}

\* the fields of KernelFunctionMetadata that the registry reads
KernelFunctionMetadata(plugin_name, name, prompt) ==
    [plugin_name |-> plugin_name, name |-> name, is_prompt |-> prompt]

Views ==
    {KernelFunctionMetadata(p, n, b) :
        p \in PluginNames, n \in FunctionNames, b \in BOOLEAN}

\* f"{self.plugin_name}-{self.name}" if self.plugin_name else self.name
fully_qualified_name(view) ==
    IF view.plugin_name # None THEN <<view.plugin_name, "-", view.name>>
    ELSE <<view.name>>

\* the descriptors a FunctionsView holds, prompt functions first
RECURSIVE ViewsOf(_, _, _)
ViewsOf(dict, plugins, prompt) ==
    IF plugins = {} THEN <<>>
    ELSE LET p == CHOOSE q \in plugins : TRUE
         IN  [i \in 1..Len(dict[p]) |-> KernelFunctionMetadata(p, dict[p][i], prompt)]
             \o ViewsOf(dict, plugins \ {p}, prompt)

Registered ==
    ViewsOf(semantic_functions, PluginNames, TRUE)
    \o ViewsOf(native_functions, PluginNames, FALSE)

NoFilters ==
    [included_plugins |-> {}, excluded_plugins |-> {},
     included_functions |-> {}, excluded_functions |-> {}]

\* the filters dict of a function choice behavior
Filters ==
    [included_plugins : {{}, {"math"}},
     excluded_plugins : {{}, {"math"}},
     included_functions : {{}, {<<"math", "-", "Add">>}, {<<"time", "-", "Now">>}},
     excluded_functions : {{}, {<<"math", "-", "Add">>}}]

\* a variant in which a function that is included stays in the listing
list_for_choice_IncludeWins(views, f) ==
    {views[i] : i \in {j \in 1..Len(views) :
        \/ views[j].plugin_name \in f.included_plugins
        \/ fully_qualified_name(views[j]) \in f.included_functions
        \/ /\ f.included_plugins = {} /\ f.included_functions = {}
           /\ views[j].plugin_name \notin f.excluded_plugins
           /\ fully_qualified_name(views[j]) \notin f.excluded_functions}}

\* the functions offered to the model: those the include filters select
\* (all of them when there is no include filter), without those an exclude
\* filter matches
list_for_choice(views, f) ==
    {views[i] : i \in {j \in 1..Len(views) :
        /\ \/ f.included_plugins = {} /\ f.included_functions = {}
           \/ views[j].plugin_name \in f.included_plugins
           \/ fully_qualified_name(views[j]) \in f.included_functions
        /\ views[j].plugin_name \notin f.excluded_plugins
        /\ fully_qualified_name(views[j]) \notin f.excluded_functions}}

RegistryIdle ==
    /\ semantic_functions = [p \in PluginNames |-> <<>>]
    /\ native_functions = [p \in PluginNames |-> <<>>]
    /\ list_filters = NoFilters
    /\ listed = FALSE
    /\ offered_functions = {}

\* FunctionsView.add_function (lines 18-28): the descriptor is appended to
\* the list of its plugin in the dict of its kind
add_function(view) ==
    /\ ~listed
    /\ Len(Registered) < MaxFunctions
    /\ IF view.is_prompt
       THEN /\ semantic_functions' =
                  [semantic_functions EXCEPT ![view.plugin_name] = Append(@, view.name)]
            /\ UNCHANGED native_functions
       ELSE /\ native_functions' =
                  [native_functions EXCEPT ![view.plugin_name] = Append(@, view.name)]
            /\ UNCHANGED semantic_functions
    /\ UNCHANGED <<list_filters, listed, offered_functions>>
    /\ UNCHANGED notRegistryVars

\* the registered functions are listed for a model under the filters of a
\* function choice behavior
ListForChoice(f) ==
    /\ ~listed
    /\ listed' = TRUE
    /\ list_filters' = f
    /\ offered_functions' = list_for_choice(Registered, f)
    /\ UNCHANGED <<semantic_functions, native_functions>>
    /\ UNCHANGED notRegistryVars

(***************************************************************************)
(* OpenAIChatCompletionBase._should_return_completions_response.  A         *)
(* completion is a chat message without tool_calls attribute, one with an   *)
(* empty tool_calls list, one with tool calls, or a streaming content       *)
(* without or with tool calls.                                              *)
(***************************************************************************)
\* largest number of completions of one response
MaxCompletions == 2

CompletionKinds ==
    {"chat", "chat_no_tool_calls", "chat_tool_calls",
     "streaming", "streaming_tool_calls"}

CompletionLists == UNION {[1..k -> CompletionKinds] : k \in 0..MaxCompletions}

\* a variant that also answers False for a streaming content with tool calls
should_return_completions_response_StreamingCounts(cs, auto) ==
    ~(auto /\ \E i \in 1..Len(cs) : cs[i] \in {"chat_tool_calls", "streaming_tool_calls"})

\* False when auto_invoke_kernel_functions is set and a completion is a
\* non-streaming chat message with tool calls, True otherwise
should_return_completions_response(cs, auto) ==
    ~(auto /\ \E i \in 1..Len(cs) : cs[i] = "chat_tool_calls")

DecisionIdle ==
    /\ response_completions = <<>>
    /\ tool_call_behavior = FALSE
    /\ should_return = "idle"

DecisionInit ==
    /\ response_completions \in CompletionLists
    /\ tool_call_behavior \in BOOLEAN
    /\ should_return = "unset"

\* the call of the method
ShouldReturn ==
    /\ should_return = "unset"
    /\ should_return' =
          (IF should_return_completions_response(response_completions, tool_call_behavior)
           THEN "True" ELSE "False")
    /\ UNCHANGED <<response_completions, tool_call_behavior>>
    /\ UNCHANGED notDecisionVars

(***************************************************************************)
(* Plan (planning/plan.py).  A step is a Plan that holds a function; a      *)
(* value is the sequence of the functions applied to the original input.    *)
(* Steps are numbered from 0 as in the code, _steps[i + 1] is step i.       *)
(***************************************************************************)
\* largest number of steps of a plan
MaxSteps == 2

StepFunctions == {"uppercase", "trim_end"}

StepLists == UNION {[1..k -> StepFunctions] : k \in 0..MaxSteps}

\* the has_next_step property (lines 69-71)
has_next_step == _next_step_index < Len(_steps)

PlanIdle ==
    /\ plan_pc = "idle"
    /\ function = "none"
    /\ function_attribute = "None"
    /\ outputs_are_sets = FALSE
    /\ _steps = <<>>
    /\ _has_next_step = FALSE
    /\ _next_step_index = 0
    /\ _state = <<>>
    /\ executed = <<>>
    /\ plan_error = "none"

\* Plan.__init__ (lines 78-102).  self._function is assigned only when a
\* function is given (lines 101-102, 159); the class body only annotates it
\* (line 21), so reading it later depends on the base class SKFunctionBase.
PlanInit ==
    /\ plan_pc = "constructed"
    /\ function \in StepFunctions \cup {"none"}
    /\ function_attribute \in {"None", "missing"}
    /\ outputs_are_sets \in BOOLEAN
    /\ _steps \in StepLists
    /\ _has_next_step = (Len(_steps) > 0)
    /\ _next_step_index = 0
    /\ _state = <<>>
    /\ executed = <<>>
    /\ plan_error = "none"

\* add_steps (lines 140-156): every step is appended, a function wrapped in
\* a Plan first; nothing else is assigned
add_steps(new_steps) ==
    /\ plan_pc = "constructed"
    /\ new_steps # <<>>
    /\ Len(_steps) + Len(new_steps) <= MaxSteps
    /\ _steps' = _steps \o new_steps
    /\ UNCHANGED <<plan_pc, function, function_attribute, outputs_are_sets,
                   _has_next_step, _next_step_index, _state, executed, plan_error>>
    /\ UNCHANGED notPlanVars

\* invoke_async up to the loop (lines 230-252): the context is rebuilt from
\* self._state, then self._function is read
InvokeAsync ==
    /\ plan_pc = "constructed"
    /\ IF function # "none"
       THEN /\ _state' = <<function>>
            /\ plan_pc' = "returned"
            /\ UNCHANGED plan_error
       ELSE IF function_attribute = "missing"
       THEN /\ plan_pc' = "raised"
            /\ plan_error' = "AttributeError"
            /\ UNCHANGED _state
       ELSE /\ plan_pc' = "loop"
            /\ UNCHANGED <<_state, plan_error>>
    /\ UNCHANGED <<function, function_attribute, outputs_are_sets, _steps,
                   _has_next_step, _next_step_index, executed>>
    /\ UNCHANGED notPlanVars

\* the test of the while statement (line 254) and of invoke_next_step
\* (line 175): the attribute assigned in __init__
LoopContinues == _has_next_step

\* one iteration of the loop (lines 254-258): invoke_next_step (lines
\* 174-219) and update_context_with_outputs.  The step runs its function on
\* its own state (line 233 of the step's invoke_async), which is empty.
InvokeNextStep(error_occurred) ==
    /\ plan_pc = "loop"
    /\ LoopContinues
    /\ IF _next_step_index >= Len(_steps)
       THEN /\ plan_pc' = "raised"
            /\ plan_error' = "IndexError"
            /\ UNCHANGED <<_next_step_index, _state, executed>>
       ELSE /\ executed' = Append(executed, _next_step_index)
            /\ IF error_occurred
               THEN /\ plan_pc' = "raised"
                    /\ plan_error' = "KernelException"
                    /\ UNCHANGED <<_next_step_index, _state>>
               ELSE /\ _state' = <<_steps[_next_step_index + 1]>>
                    /\ IF outputs_are_sets
                       THEN /\ _next_step_index' = _next_step_index + 1
                            /\ UNCHANGED <<plan_pc, plan_error>>
                       ELSE /\ plan_pc' = "raised"
                            /\ plan_error' = "TypeError"
                            /\ UNCHANGED _next_step_index
    /\ UNCHANGED <<function, function_attribute, outputs_are_sets, _steps,
                   _has_next_step>>
    /\ UNCHANGED notPlanVars

\* the loop ends and invoke_async returns the context (line 260)
PlanReturn ==
    /\ plan_pc = "loop"
    /\ ~LoopContinues
    /\ plan_pc' = "returned"
    /\ UNCHANGED <<function, function_attribute, outputs_are_sets, _steps,
                   _has_next_step, _next_step_index, _state, executed, plan_error>>
    /\ UNCHANGED notPlanVars

(***************************************************************************)
(* ChatHistory: the constructor and the add calls.                          *)
(***************************************************************************)
\* largest number of messages given to the constructor
MaxGiven == 2
\* largest number of add calls
MaxAdded == 2

HistoryRoles == {"system", "user", "assistant", "tool"}
HistoryContents == {"Message 0", "Message 1"}

\* the messages of an add call: add_message(message), add_system_message,
\* add_user_message, add_assistant_message and add_tool_message(content)
AddedMessages ==
    {ChatMessageContent(role, <<TextContent(content)>>) :
        role \in HistoryRoles, content \in HistoryContents}

\* the lists given to the constructor hold user messages
GivenLists ==
    UNION {[1..k -> {ChatMessageContent("user", <<TextContent(content)>>) :
                        content \in HistoryContents}] : k \in 0..MaxGiven}

SystemPrompts == {"none", "a test system prompt"}

\* ChatHistory(messages=msgs, system_message=prompt)
ChatHistory(msgs, prompt) ==
    IF prompt = "none"
    THEN msgs
    ELSE <<ChatMessageContent("system", <<TextContent(prompt)>>)>> \o msgs

\* a variant that puts the new message in front
add_message_InFront(history, msg) == <<msg>> \o history

\* add_message: the message is appended
add_message(history, msg) == Append(history, msg)

HistoryIdle ==
    /\ history_pc = "idle"
    /\ system_message = "none"
    /\ given_messages = <<>>
    /\ added_messages = <<>>
    /\ messages = <<>>

HistoryInit ==
    /\ history_pc = "constructed"
    /\ system_message \in SystemPrompts
    /\ given_messages \in GivenLists
    /\ added_messages = <<>>
    /\ messages = ChatHistory(given_messages, system_message)

\* one call of add_message or of an add_*_message method
AddMessage(msg) ==
    /\ history_pc = "constructed"
    /\ Len(added_messages) < MaxAdded
    /\ messages' = add_message(messages, msg)
    /\ added_messages' = Append(added_messages, msg)
    /\ UNCHANGED <<history_pc, system_message, given_messages>>
    /\ UNCHANGED notHistoryVars

(***************************************************************************)
(* KernelFilterExtension (kernel_extensions/kernel_filters_extension.py).   *)
(* Every add_filter call passes a new function, the function of the k-th    *)
(* call is k.  A filter runs its first part, awaits next(context) once and  *)
(* runs its second part.                                                    *)
(***************************************************************************)
\* largest number of add_filter calls
MaxFilters == 3

ALLOWED_FILTERS == {"function_invocation", "prompt_rendering", "auto_function_invocation"}

\* what a caller may pass as filter_type
FilterTypes == ALLOWED_FILTERS \cup {"unknown"}

inner_function == [kind |-> "inner"]
Returned == [kind |-> "returned"]

\* partial(filter, next=nxt)
partial(f, nxt) == [kind |-> "filter", filter |-> f, next |-> nxt]

RECURSIVE StackAfter(_, _, _)
\* the stack after the iterations i.. of the for statement (lines 94-96)
StackAfter(list, i, stack) ==
    IF i > Len(list)
    THEN stack
    ELSE StackAfter(list, i + 1, <<partial(list[i], stack[1])>> \o stack)

\* a variant that walks the list of filters from its end
construct_call_stack_Reversed(list, inner) ==
    StackAfter([i \in 1..Len(list) |-> list[Len(list) + 1 - i]], 1, <<inner>>)[1]

\* construct_call_stack (lines 88-97)
construct_call_stack(list, inner) == StackAfter(list, 1, <<inner>>)[1]

\* an optional integer argument: <<>> is None, <<n>> is n
FilterCall(op, filter_type, filter_id, position) ==
    [op |-> op, filter_type |-> filter_type, filter_id |-> filter_id,
     position |-> position]

NoFilterCall == FilterCall("none", None, <<>>, <<>>)

\* the number of entries of the three lists
FiltersAdded ==
    Len(filter_lists["function_invocation"]) + Len(filter_lists["prompt_rendering"])
        + Len(filter_lists["auto_function_invocation"])

FilterIdle ==
    /\ filter_pc = "idle"
    /\ filter_lists = [t \in ALLOWED_FILTERS |-> <<>>]
    /\ add_order = [t \in ALLOWED_FILTERS |-> <<>>]
    /\ filter_error = "none"
    /\ run_type = "none"
    /\ callee = Returned
    /\ awaiting = <<>>
    /\ call_trace = <<>>
    /\ filter_call = NoFilterCall
    /\ lists_before = [t \in ALLOWED_FILTERS |-> <<>>]

\* the lists are empty by default (lines 26-28)
FilterInit ==
    /\ filter_pc = "adding"
    /\ filter_lists = [t \in ALLOWED_FILTERS |-> <<>>]
    /\ add_order = [t \in ALLOWED_FILTERS |-> <<>>]
    /\ filter_error = "none"
    /\ run_type = "none"
    /\ callee = Returned
    /\ awaiting = <<>>
    /\ call_trace = <<>>
    /\ filter_call = NoFilterCall
    /\ lists_before = [t \in ALLOWED_FILTERS |-> <<>>]

\* add_filter (lines 30-45): insert(0, (id(filter), filter))
add_filter(filter_type) ==
    /\ filter_pc = "adding"
    /\ FiltersAdded < MaxFilters
    /\ IF filter_type \notin ALLOWED_FILTERS
       THEN /\ filter_error' = "ValueError"
            /\ UNCHANGED <<filter_lists, add_order>>
       ELSE /\ filter_lists' = [filter_lists EXCEPT
                                   ![filter_type] = <<FiltersAdded + 1>> \o @]
            /\ add_order' = [add_order EXCEPT
                                ![filter_type] = Append(@, FiltersAdded + 1)]
            /\ filter_error' = "none"
    /\ filter_call' = FilterCall("add_filter", filter_type, <<FiltersAdded + 1>>, <<>>)
    /\ lists_before' = filter_lists
    /\ UNCHANGED <<filter_pc, run_type, callee, awaiting, call_trace>>
    /\ UNCHANGED notFilterVars

\* FILTER_MAPPING.values(), in the order of the dictionary (lines 15-19)
FILTER_MAPPING_values ==
    <<"function_invocation", "prompt_rendering", "auto_function_invocation">>

\* the index of the first entry of a list with an id, 0 when there is none
FirstWithId(list, filter_id) ==
    IF \E i \in 1..Len(list) : <<list[i]>> = filter_id
    THEN CHOOSE i \in 1..Len(list) :
             /\ <<list[i]>> = filter_id
             /\ \A j \in 1..(i - 1) : <<list[j]>> # filter_id
    ELSE 0

\* list.remove / list.pop of the entry at index i
WithoutEntry(list, i) == SubSeq(list, 1, i - 1) \o SubSeq(list, i + 1, Len(list))

RemovalResult(lists, error) == [lists |-> lists, error |-> error]

RECURSIVE RemoveFromAny(_, _, _)
\* lines 82-86: the lists are searched in the order of FILTER_MAPPING and
\* the first entry with the id is removed
RemoveFromAny(lists, filter_id, k) ==
    IF k > Len(FILTER_MAPPING_values)
    THEN lists
    ELSE LET t == FILTER_MAPPING_values[k]
             i == FirstWithId(lists[t], filter_id)
         IN  IF i > 0
             THEN [lists EXCEPT ![t] = WithoutEntry(@, i)]
             ELSE RemoveFromAny(lists, filter_id, k + 1)

\* remove_filter (lines 56-86): the lists it leaves and the exception it
\* raises, or "none"
RemoveFilter(lists, filter_type, filter_id, position) ==
    IF filter_id = <<>> /\ position = <<>>
    THEN RemovalResult(lists, "ValueError")
    ELSE IF position # <<>>
    THEN IF filter_type = None THEN RemovalResult(lists, "ValueError")
         ELSE IF filter_type \notin ALLOWED_FILTERS THEN RemovalResult(lists, "KeyError")
         ELSE LET n == Len(lists[filter_type])
                  p == position[1]
              IN  IF p >= n \/ p < 0 - n
                  THEN RemovalResult(lists, "IndexError")
                  ELSE RemovalResult(
                           [lists EXCEPT ![filter_type] =
                               WithoutEntry(@, IF p >= 0 THEN p + 1 ELSE n + p + 1)],
                           "none")
    ELSE IF filter_type # None /\ filter_type \notin ALLOWED_FILTERS
    THEN RemovalResult(lists, "KeyError")
    ELSE IF filter_type # None /\ FirstWithId(lists[filter_type], filter_id) > 0
    THEN RemovalResult(
             [lists EXCEPT ![filter_type] =
                 WithoutEntry(@, FirstWithId(lists[filter_type], filter_id))],
             "none")
    ELSE RemovalResult(RemoveFromAny(lists, filter_id, 1), "none")

\* what a caller may pass as filter_id and as position
FilterIds == {<<>>} \cup {<<n>> : n \in 1..MaxFilters}
Positions == {<<>>} \cup {<<p>> : p \in (0 - 1)..(MaxFilters - 1)}

\* one call of remove_filter
remove_filter(filter_type, filter_id, position) ==
    /\ filter_pc = "adding"
    /\ LET removal == RemoveFilter(filter_lists, filter_type, filter_id, position)
       IN  /\ filter_lists' = removal.lists
           /\ add_order' = [t \in ALLOWED_FILTERS |->
                  [i \in 1..Len(removal.lists[t]) |->
                      removal.lists[t][Len(removal.lists[t]) + 1 - i]]]
           /\ filter_error' = removal.error
    /\ filter_call' = FilterCall("remove_filter", filter_type, filter_id, position)
    /\ lists_before' = filter_lists
    /\ UNCHANGED <<filter_pc, run_type, callee, awaiting, call_trace>>
    /\ UNCHANGED notFilterVars

\* construct_call_stack(filter_type, inner_function); the caller then calls
\* what it returns
ConstructCallStack(filter_type) ==
    /\ filter_pc = "adding"
    /\ filter_type \in ALLOWED_FILTERS
    /\ filter_pc' = "running"
    /\ run_type' = filter_type
    /\ callee' = construct_call_stack(filter_lists[filter_type], inner_function)
    /\ UNCHANGED <<filter_lists, add_order, filter_error, awaiting, call_trace>>
    /\ UNCHANGED <<filter_call, lists_before>>
    /\ UNCHANGED notFilterVars

\* a filter is called: it runs its first part and calls next
CallFilter ==
    /\ filter_pc = "running"
    /\ callee.kind = "filter"
    /\ call_trace' = Append(call_trace, <<"pre", callee.filter>>)
    /\ awaiting' = Append(awaiting, callee.filter)
    /\ callee' = callee.next
    /\ UNCHANGED <<filter_pc, filter_lists, add_order, filter_error, run_type>>
    /\ UNCHANGED <<filter_call, lists_before>>
    /\ UNCHANGED notFilterVars

\* the inner function is called and returns
CallInner ==
    /\ filter_pc = "running"
    /\ callee.kind = "inner"
    /\ call_trace' = Append(call_trace, <<"inner", 0>>)
    /\ callee' = Returned
    /\ UNCHANGED <<filter_pc, filter_lists, add_order, filter_error, run_type, awaiting>>
    /\ UNCHANGED <<filter_call, lists_before>>
    /\ UNCHANGED notFilterVars

\* next has returned: the innermost waiting filter runs its second part and
\* returns
FilterReturns ==
    /\ filter_pc = "running"
    /\ callee.kind = "returned"
    /\ awaiting # <<>>
    /\ call_trace' = Append(call_trace, <<"post", awaiting[Len(awaiting)]>>)
    /\ awaiting' = SubSeq(awaiting, 1, Len(awaiting) - 1)
    /\ UNCHANGED <<filter_pc, filter_lists, add_order, filter_error, run_type, callee>>
    /\ UNCHANGED <<filter_call, lists_before>>
    /\ UNCHANGED notFilterVars

\* the outermost callable has returned
StackReturns ==
    /\ filter_pc = "running"
    /\ callee.kind = "returned"
    /\ awaiting = <<>>
    /\ filter_pc' = "done"
    /\ UNCHANGED <<filter_lists, add_order, filter_error, run_type, callee, awaiting,
                   call_trace, filter_call, lists_before>>
    /\ UNCHANGED notFilterVars

(***************************************************************************)
(* GuidedConversation (guided_conversation_agent.py).  A tool name stands   *)
(* for the f"{name}-{name}" the model returns; a plugin call is the pair of *)
(* its name and its position in parsed_result["tool_names"], which selects  *)
(* its arguments.                                                           *)
(***************************************************************************)
\* largest number of tool calls of one plan
MaxToolCalls == 4

MAX_DECISION_RETRIES == 2

UPDATE_ARTIFACT_TOOL == "update_artifact_field"
UPDATE_AGENDA_TOOL == "update_agenda"
SEND_MSG_TOOL == "send_message_to_user"
END_CONV_TOOL == "end_conversation"

ToolName == {UPDATE_ARTIFACT_TOOL, UPDATE_AGENDA_TOOL, SEND_MSG_TOOL, END_CONV_TOOL}

ToolNameLists == UNION {[1..k -> ToolName] : k \in 0..MaxToolCalls}

\* the results of validate_tool_calling
ToolValidationResult == {"SUCCESS", "INVALID"}

plugins_order == <<UPDATE_ARTIFACT_TOOL, UPDATE_AGENDA_TOOL>>

\* a variant in which end_conversation has priority
terminal_plugins_order_EndFirst == <<END_CONV_TOOL, SEND_MSG_TOOL>>

terminal_plugins_order == <<SEND_MSG_TOOL, END_CONV_TOOL>>

NoOutput == [ai_message |-> "none", is_conversation_over |-> FALSE]

RECURSIVE CalledAs(_, _, _)
\* the calls of one plugin among the tool names from position i on, in call
\* order (the inner for statements of lines 246-249 and 252-257)
CalledAs(called_names, plugin, i) ==
    IF i > Len(called_names)
    THEN <<>>
    ELSE (IF called_names[i] = plugin
          THEN <<[name |-> called_names[i], position |-> i]>>
          ELSE <<>>) \o CalledAs(called_names, plugin, i + 1)

RECURSIVE SortByOrder(_, _, _)
\* the outer for statements of lines 245 and 251
SortByOrder(called_names, plugin_list, k) ==
    IF k > Len(plugin_list)
    THEN <<>>
    ELSE CalledAs(called_names, plugin_list[k], 1)
             \o SortByOrder(called_names, plugin_list, k + 1)

ConversationIdle ==
    /\ gc_pc = "idle"
    /\ current_failed_decision_attempts = 0
    /\ tool_names = <<>>
    /\ regular_plugins = <<>>
    /\ terminal_plugins = <<>>
    /\ plugin_index = 1
    /\ plugins_executed = <<>>
    /\ resource_increments = 0
    /\ gc_output = NoOutput

\* __init__ (line 93)
ConversationInit ==
    /\ gc_pc = "ready"
    /\ current_failed_decision_attempts = 0
    /\ tool_names = <<>>
    /\ regular_plugins = <<>>
    /\ terminal_plugins = <<>>
    /\ plugin_index = 1
    /\ plugins_executed = <<>>
    /\ resource_increments = 0
    /\ gc_output = NoOutput

\* step_conversation up to the while statement (lines 110-116)
StepConversation ==
    /\ gc_pc = "ready"
    /\ gc_pc' = "while"
    /\ current_failed_decision_attempts' = 0
    /\ UNCHANGED <<tool_names, regular_plugins, terminal_plugins, plugin_index,
                   plugins_executed, resource_increments, gc_output>>
    /\ UNCHANGED notConversationVars

\* one plan: _generate_plan and _execute_plan (lines 121-129, 211-259).
\* The plan's tool names, plugins and terminal plugins are locals of the
\* loop body: they are kept while the plan is executed and empty between
\* two plans.
ExecutePlan(validation_result, called_names) ==
    /\ gc_pc = "while"
    /\ current_failed_decision_attempts < MAX_DECISION_RETRIES
    /\ plugins_executed' = <<>>
    /\ plugin_index' = 1
    /\ IF validation_result # "SUCCESS"
       THEN /\ tool_names' = <<>>
            /\ regular_plugins' = <<>>
            /\ terminal_plugins' = <<>>
            /\ current_failed_decision_attempts' = current_failed_decision_attempts + 1
            /\ UNCHANGED gc_pc
       ELSE /\ tool_names' = called_names
            /\ regular_plugins' = SortByOrder(called_names, plugins_order, 1)
            /\ terminal_plugins' = SortByOrder(called_names, terminal_plugins_order, 1)
            /\ gc_pc' = "plugins"
            /\ UNCHANGED current_failed_decision_attempts
    /\ UNCHANGED <<resource_increments, gc_output>>
    /\ UNCHANGED notConversationVars

\* one regular plugin (lines 133-143) through _call_plugin (lines 166-179)
CallPlugin(update_successful) ==
    /\ gc_pc = "plugins"
    /\ plugin_index <= Len(regular_plugins)
    /\ plugins_executed' = Append(plugins_executed, regular_plugins[plugin_index])
    /\ plugin_index' = plugin_index + 1
    /\ current_failed_decision_attempts' =
          (IF update_successful
           THEN current_failed_decision_attempts
           ELSE current_failed_decision_attempts + 1)
    /\ UNCHANGED <<gc_pc, tool_names, regular_plugins, terminal_plugins, resource_increments,
                   gc_output>>
    /\ UNCHANGED notConversationVars

\* the first terminal plugin is executed and the step returns (lines 146-156)
TerminalPlugin ==
    /\ gc_pc = "plugins"
    /\ plugin_index > Len(regular_plugins)
    /\ terminal_plugins # <<>>
    /\ plugins_executed' = Append(plugins_executed, terminal_plugins[1])
    /\ gc_output' =
          (IF terminal_plugins[1].name = SEND_MSG_TOOL
           THEN [ai_message |-> "message", is_conversation_over |-> FALSE]
           ELSE [ai_message |-> "terminate", is_conversation_over |-> TRUE])
    /\ resource_increments' = resource_increments + 1
    /\ gc_pc' = "returned"
    /\ UNCHANGED <<current_failed_decision_attempts, tool_names, regular_plugins,
                   terminal_plugins, plugin_index>>
    /\ UNCHANGED notConversationVars

\* no terminal plugin was called: back to the while statement
NextPlan ==
    /\ gc_pc = "plugins"
    /\ plugin_index > Len(regular_plugins)
    /\ terminal_plugins = <<>>
    /\ gc_pc' = "while"
    /\ tool_names' = <<>>
    /\ regular_plugins' = <<>>
    /\ plugin_index' = 1
    /\ plugins_executed' = <<>>
    /\ UNCHANGED <<current_failed_decision_attempts, terminal_plugins,
                   resource_increments, gc_output>>
    /\ UNCHANGED notConversationVars

\* the maximum number of decision retries was reached (lines 158-164)
RetriesExhausted ==
    /\ gc_pc = "while"
    /\ current_failed_decision_attempts >= MAX_DECISION_RETRIES
    /\ resource_increments' = resource_increments + 1
    /\ gc_output' = [ai_message |-> "error", is_conversation_over |-> TRUE]
    /\ gc_pc' = "returned"
    /\ UNCHANGED <<current_failed_decision_attempts, tool_names, regular_plugins,
                   terminal_plugins, plugin_index, plugins_executed>>
    /\ UNCHANGED notConversationVars

(***************************************************************************)
(* KernelFunction.invoke_stream (lines 498-532), on the state of invoke.    *)
(* The k-th partial result of the stream function is k.                     *)
(***************************************************************************)
FunctionStreamIdle ==
    /\ stream_function = FALSE
    /\ stream_msgs = <<>>

\* a function, with or without a stream function, and the arguments of one
\* call of invoke_stream
InvokeStreamInit ==
    /\ invoke_pc = "stream_start"
    /\ is_prompt \in BOOLEAN
    /\ parameters \in ParameterLists
    /\ kernel_arguments \in KernelArguments
    /\ input_defaults \in (IF is_prompt THEN SUBSET {"x"} ELSE {{}})
    /\ function_arguments = {}
    /\ called = 0
    /\ callable_raised = None
    /\ function_result = NoResult
    /\ invoke_raised = None
    /\ stream_function \in BOOLEAN
    /\ stream_msgs = <<>>

\* lines 517-524: the test of self.stream_function, then the parameters are
\* gathered
InvokeStreamGather ==
    /\ invoke_pc = "stream_start"
    /\ LET g == gather_function_parameters(parameters, kernel_arguments, is_prompt, 1, {})
           withDefaults == IF is_prompt
                           THEN add_default_values(g.names, input_defaults)
                           ELSE g.names
       IN  IF ~stream_function
           THEN /\ invoke_pc' = "raised"
                /\ invoke_raised' = "ValueError"
                /\ UNCHANGED function_arguments
           ELSE IF g.raised # None
           THEN /\ invoke_pc' = "raised"
                /\ invoke_raised' = g.raised
                /\ UNCHANGED function_arguments
           ELSE /\ invoke_pc' = "streaming"
                /\ function_arguments' =
                      IF is_prompt THEN withDefaults \cup {CHAT_HISTORY_TAG}
                      ELSE withDefaults
                /\ UNCHANGED invoke_raised
    /\ UNCHANGED <<is_prompt, parameters, kernel_arguments, input_defaults, called,
                   callable_raised, function_result, stream_function, stream_msgs>>
    /\ UNCHANGED notFunctionStreamInvokeVars

\* lines 526-527: the stream function yields a partial result, which is
\* yielded
StreamFunctionYields ==
    /\ invoke_pc = "streaming"
    /\ Len(stream_msgs) < MaxChunks
    /\ stream_msgs' = Append(stream_msgs, [kind |-> "partial", value |-> Len(stream_msgs) + 1])
    /\ called' = 1
    /\ UNCHANGED <<invoke_pc, is_prompt, parameters, kernel_arguments, input_defaults,
                   function_arguments, callable_raised, function_result, invoke_raised,
                   stream_function>>
    /\ UNCHANGED notFunctionStreamInvokeVars

\* a variant without the except clause: the exception leaves the generator
StreamFunctionRaises_Propagates ==
    /\ invoke_pc = "streaming"
    /\ callable_raised' = "Exception"
    /\ invoke_raised' = "Exception"
    /\ called' = 1
    /\ invoke_pc' = "raised"
    /\ UNCHANGED <<is_prompt, parameters, kernel_arguments, input_defaults,
                   function_arguments, function_result, stream_function, stream_msgs>>
    /\ UNCHANGED notFunctionStreamInvokeVars

\* lines 528-532: the stream function raises; a FunctionResult without
\* value is yielded and the generator ends
StreamFunctionRaises ==
    /\ invoke_pc = "streaming"
    /\ callable_raised' = "Exception"
    /\ called' = 1
    /\ function_result' = FunctionResult(None, "Exception", function_arguments)
    /\ stream_msgs' = Append(stream_msgs,
                         [kind |-> "FunctionResult",
                          value |-> FunctionResult(None, "Exception", function_arguments)])
    /\ invoke_pc' = "ended"
    /\ UNCHANGED <<is_prompt, parameters, kernel_arguments, input_defaults,
                   function_arguments, invoke_raised, stream_function>>
    /\ UNCHANGED notFunctionStreamInvokeVars

\* the stream function is exhausted and the generator ends
StreamFunctionEnds ==
    /\ invoke_pc = "streaming"
    /\ called' = 1
    /\ invoke_pc' = "ended"
    /\ UNCHANGED <<is_prompt, parameters, kernel_arguments, input_defaults,
                   function_arguments, callable_raised, function_result, invoke_raised,
                   stream_function, stream_msgs>>
    /\ UNCHANGED notFunctionStreamInvokeVars

(***************************************************************************)
(* OpenAIChatResponse.parse_choice (open_ai_response.py, lines 192-231).    *)
(* A text is a sequence; the content and the argument fragments of the k-th *)
(* choice parsed are <<k>> or None.  A delta names a tool index at most     *)
(* once; its function_call is None.                                         *)
(***************************************************************************)
\* largest number of choices parsed
MaxDeltas == 2

ChoiceIndexes == {0, 1}
ToolIndexes == {0, 1}

NoToolCall == [present |-> FALSE, id |-> 0, arguments |-> <<>>]
NoToolCalls == [present |-> FALSE, tools |-> [j \in ToolIndexes |-> NoToolCall]]

\* the texts of the k-th choice
Texts(k) == {NoContent, Content(<<k>>)}

\* the delta.tool_calls of the k-th choice: None or a list of tool deltas
ToolDeltaLists(k) ==
    LET ToolDeltas == [index : ToolIndexes, id : {k}, arguments : Texts(k)]
    IN  {s \in UNION {[1..n -> ToolDeltas] : n \in 0..2} :
            \A a, b \in DOMAIN s : s[a].index = s[b].index => a = b}

\* the k-th choice given to parse_choice
Choices(k) ==
    [index : ChoiceIndexes, content : Texts(k),
     tool_calls : {[none |-> TRUE, list |-> <<>>]}
                     \cup {[none |-> FALSE, list |-> l] : l \in ToolDeltaLists(k)}]

RECURSIVE StoreToolDeltas(_, _, _)
\* the for statements of lines 197-218 from the tool delta at position i on:
\* a tool index not yet stored gets the delta's id and its arguments or "",
\* a stored one has its arguments extended (line 218)
StoreToolDeltas(entries, list, i) ==
    IF i > Len(list)
    THEN [tools |-> entries, raised |-> None]
    ELSE LET tool == list[i]
         IN  IF ~entries[tool.index].present
             THEN StoreToolDeltas(
                      [entries EXCEPT ![tool.index] =
                          [present |-> TRUE, id |-> tool.id,
                           arguments |-> ContentOrEmpty(tool.arguments)]],
                      list, i + 1)
             ELSE IF tool.arguments.none
             THEN [tools |-> entries, raised |-> "TypeError"]
             ELSE StoreToolDeltas(
                      [entries EXCEPT ![tool.index].arguments = @ \o tool.arguments.text],
                      list, i + 1)

\* the key under which the content of a choice is stored
ContentKey_FirstChoice(choice) == 0

ContentKey(choice) == choice.index

\* parse_choice (lines 192-231): the tool calls, then the content
parse_choice(contents, calls, choice) ==
    LET stored == IF choice.tool_calls.none
                  THEN [tools |-> calls[choice.index].tools, raised |-> None]
                  ELSE StoreToolDeltas(calls[choice.index].tools, choice.tool_calls.list, 1)
        newCalls == IF choice.tool_calls.none
                    THEN calls
                    ELSE [calls EXCEPT ![choice.index] =
                             [present |-> TRUE, tools |-> stored.tools]]
    IN  IF stored.raised # None
        THEN [contents |-> contents, calls |-> newCalls, raised |-> stored.raised]
        ELSE [contents |->
                 IF choice.content.none
                 THEN contents
                 ELSE [contents EXCEPT ![ContentKey(choice)] =
                          Content(ContentOrEmpty(@) \o choice.content.text)],
              calls |-> newCalls,
              raised |-> None]

ResponseIdle ==
    /\ parse_pc = "idle"
    /\ _parsed_content = [i \in ChoiceIndexes |-> NoContent]
    /\ _tool_calls = [i \in ChoiceIndexes |-> NoToolCalls]
    /\ parsed_deltas = <<>>

\* a streaming response, nothing parsed yet (lines 68-70)
ResponseInit ==
    /\ parse_pc = "parsing"
    /\ _parsed_content = [i \in ChoiceIndexes |-> NoContent]
    /\ _tool_calls = [i \in ChoiceIndexes |-> NoToolCalls]
    /\ parsed_deltas = <<>>

\* parse_stream gives a choice of a chunk to parse_choice (line 188)
ParseChoice(choice) ==
    /\ parse_pc = "parsing"
    /\ Len(parsed_deltas) < MaxDeltas
    /\ choice \in Choices(Len(parsed_deltas) + 1)
    /\ LET r == parse_choice(_parsed_content, _tool_calls, choice)
       IN  /\ _parsed_content' = r.contents
           /\ _tool_calls' = r.calls
           /\ IF r.raised # None
              THEN /\ parse_pc' = "raised"
                   /\ UNCHANGED parsed_deltas
              ELSE /\ parsed_deltas' = Append(parsed_deltas, choice)
                   /\ UNCHANGED parse_pc
    /\ UNCHANGED notResponseVars

(***************************************************************************)
(* A prompt function (KernelFunction.from_prompt).  The chat_history of the *)
(* caller's arguments is absent, a ChatHistory or a value of another type;  *)
(* local_history says whether _local_func works on a history of its own.    *)
(***************************************************************************)
\* largest number of messages of the caller's history
MaxHistory == 2

PromptText == "the rendered prompt"

HistoryArgument(kind, msgs) == [kind |-> kind, messages |-> msgs]

\* what a caller passes as chat_history
HistoryArguments ==
    {HistoryArgument("absent", <<>>), HistoryArgument("str", <<>>)}
    \cup {HistoryArgument("ChatHistory", msgs) :
            msgs \in UNION {[1..k -> {ChatMessageContent(role, <<TextContent("hi")>>) :
                                         role \in {"user", "assistant"}}] :
                               k \in 0..MaxHistory}}

LocalHistory(fresh, msgs) == [fresh |-> fresh, messages |-> msgs]
NoLocalHistory == [fresh |-> FALSE, messages |-> <<>>]

ServiceInput(kind, msgs) == [kind |-> kind, messages |-> msgs]
NoServiceInput == ServiceInput("none", <<>>)

\* a variant that adds the user message to every history it is given
local_func_history_AlwaysAdds(argument, prompt) ==
    IF argument.kind = "absent"
    THEN LocalHistory(TRUE, ChatHistory(<<>>, prompt))
    ELSE LocalHistory(FALSE,
             add_message(argument.messages,
                         ChatMessageContent("user", <<TextContent(prompt)>>)))

\* lines 292-295: without a history, or with an empty one, a new ChatHistory
\* with the prompt as system message; otherwise add_user_message(prompt) on
\* the history given.  An absent chat_history is the empty ChatHistory of
\* lines 480-481 and 557
local_func_history(argument, prompt) ==
    IF argument.kind = "absent" \/ Len(argument.messages) = 0
    THEN LocalHistory(TRUE, ChatHistory(<<>>, prompt))
    ELSE LocalHistory(FALSE,
             add_message(argument.messages,
                         ChatMessageContent("user", <<TextContent(prompt)>>)))

PromptIdle ==
    /\ prompt_pc = "idle"
    /\ prompt_service = "none"
    /\ caller_history = HistoryArgument("absent", <<>>)
    /\ given_history = HistoryArgument("absent", <<>>)
    /\ local_history = NoLocalHistory
    /\ service_input = NoServiceInput
    /\ prompt_error = "none"

PromptInit ==
    /\ prompt_pc = "start"
    /\ prompt_service \in {"chat", "text", "other", "none"}
    /\ caller_history \in HistoryArguments
    /\ given_history = caller_history
    /\ local_history = NoLocalHistory
    /\ service_input = NoServiceInput
    /\ prompt_error = "none"

\* invoke up to the await of prompt_template.render (lines 477-482, 287-290):
\* gather_function_parameters raises for a chat_history that is no
\* ChatHistory, _local_func for a service that is None
PromptInvoke ==
    /\ prompt_pc = "start"
    /\ IF caller_history.kind = "str"
       THEN /\ prompt_pc' = "raised"
            /\ prompt_error' = "ValueError"
       ELSE IF prompt_service = "none"
       THEN /\ prompt_pc' = "failed"
            /\ prompt_error' = "ValueError"
       ELSE /\ prompt_pc' = "rendering"
            /\ UNCHANGED prompt_error
    /\ UNCHANGED <<prompt_service, caller_history, given_history, local_history,
                   service_input>>
    /\ UNCHANGED notPromptVars

\* render returns (lines 290-329): the history is chosen or extended, and
\* the service is called with it, or with the prompt; a service of neither
\* kind gets nothing and ValueError is raised
RenderReturns(rendered) ==
    /\ prompt_pc = "rendering"
    /\ IF ~rendered
       THEN /\ prompt_pc' = "failed"
            /\ prompt_error' = "Exception"
            /\ UNCHANGED <<caller_history, local_history, service_input>>
       ELSE LET h == local_func_history(caller_history, PromptText)
            IN  /\ local_history' = h
                /\ caller_history' =
                      IF h.fresh THEN caller_history
                      ELSE HistoryArgument(caller_history.kind, h.messages)
                /\ IF prompt_service = "chat"
                   THEN /\ service_input' = ServiceInput("history", h.messages)
                        /\ prompt_pc' = "awaiting"
                        /\ UNCHANGED prompt_error
                   ELSE IF prompt_service = "text"
                   THEN /\ service_input' = ServiceInput("prompt", <<>>)
                        /\ prompt_pc' = "awaiting"
                        /\ UNCHANGED prompt_error
                   ELSE /\ prompt_pc' = "failed"
                        /\ prompt_error' = "ValueError"
                        /\ UNCHANGED service_input
    /\ UNCHANGED <<prompt_service, given_history>>
    /\ UNCHANGED notPromptVars

\* complete_chat or complete returns or raises (lines 299, 315)
ServiceReturns(completed) ==
    /\ prompt_pc = "awaiting"
    /\ IF completed
       THEN /\ prompt_pc' = "returned"
            /\ UNCHANGED prompt_error
       ELSE /\ prompt_pc' = "failed"
            /\ prompt_error' = "Exception"
    /\ UNCHANGED <<prompt_service, caller_history, given_history, local_history,
                   service_input>>
    /\ UNCHANGED notPromptVars

(***************************************************************************)
(* Specifications.                                                          *)
(***************************************************************************)
Init == LoopInit /\ ChunkIdle /\ InvokeIdle /\ StreamIdle /\ RegistryIdle /\ DecisionIdle /\ PlanIdle /\ HistoryIdle /\ FilterIdle /\ ConversationIdle /\ FunctionStreamIdle /\ ResponseIdle /\ PromptIdle
Next ==
    \/ Call
    \/ \E parts \in Responses(Offered) : ReceivePlain(parts)
    \/ \E parts \in Responses(Offered) : ReceiveLoop(parts)
    \/ \E i \in 1..MaxParts + 1, out \in Outcomes : ToolComplete(i, out)
    \/ GatherReturn
    \/ \E parts \in Responses(Offered) : ReceiveFinal(parts)
    \/ SendFails
Spec == Init /\ [][Next]_vars

\* the scheduler runs every task that can run: the event loop is fair
FairSpec == Spec /\ WF_vars(Next)

\* under that scheduling every call returns or raises
LoopTerminates == <>(pc \in {"returned", "raised"})

\* the fold of a stream of chunks, the loop being idle
ChunkStart == LoopIdle /\ ChunkInit /\ InvokeIdle /\ StreamIdle /\ RegistryIdle /\ DecisionIdle /\ PlanIdle /\ HistoryIdle /\ FilterIdle /\ ConversationIdle /\ FunctionStreamIdle /\ ResponseIdle /\ PromptIdle
ChunkStep ==
    \/ \E b \in Chunks : AddOpenAI(b)
    \/ \E b \in Chunks : AddAzure(b)
ChunkSpec == ChunkStart /\ [][ChunkStep]_vars

\* one call of KernelFunction.invoke, the loop and the chunks being idle
InvokeStart == LoopIdle /\ ChunkIdle /\ InvokeInit /\ StreamIdle /\ RegistryIdle /\ DecisionIdle /\ PlanIdle /\ HistoryIdle /\ FilterIdle /\ ConversationIdle /\ FunctionStreamIdle /\ ResponseIdle /\ PromptIdle
InvokeStep ==
    \/ InvokeGather
    \/ \E out \in AllOutcomes : CallableCompletes(out)
InvokeSpec == InvokeStart /\ [][InvokeStep]_vars

\* one call of get_streaming_chat_message_contents
StreamStart == StreamInit /\ ChunkIdle /\ InvokeIdle /\ RegistryIdle /\ DecisionIdle /\ PlanIdle /\ HistoryIdle /\ FilterIdle /\ ConversationIdle /\ FunctionStreamIdle /\ ResponseIdle /\ PromptIdle
StreamStep ==
    \/ StreamCall
    \/ \E text \in ChunkTexts : StreamChunk(text)
    \/ StreamEnd
    \/ StreamFails
StreamSpec == StreamStart /\ [][StreamStep]_vars

\* a FunctionsView that is filled and then listed for a model
RegistryStart == LoopIdle /\ ChunkIdle /\ InvokeIdle /\ StreamIdle /\ RegistryIdle /\ DecisionIdle /\ PlanIdle /\ HistoryIdle /\ FilterIdle /\ ConversationIdle /\ FunctionStreamIdle /\ ResponseIdle /\ PromptIdle
RegistryStep ==
    \/ \E view \in Views : add_function(view)
    \/ \E f \in Filters : ListForChoice(f)
RegistrySpec == RegistryStart /\ [][RegistryStep]_vars

\* one call of _should_return_completions_response
DecisionStart == DecisionInit /\ LoopIdle /\ ChunkIdle /\ InvokeIdle /\ StreamIdle /\ RegistryIdle /\ PlanIdle /\ HistoryIdle /\ FilterIdle /\ ConversationIdle /\ FunctionStreamIdle /\ ResponseIdle /\ PromptIdle
DecisionStep == ShouldReturn
DecisionSpec == DecisionStart /\ [][DecisionStep]_vars

\* a Plan that is constructed, given steps and invoked
PlanStart == PlanInit /\ LoopIdle /\ ChunkIdle /\ InvokeIdle /\ StreamIdle /\ RegistryIdle /\ DecisionIdle /\ HistoryIdle /\ FilterIdle /\ ConversationIdle /\ FunctionStreamIdle /\ ResponseIdle /\ PromptIdle
PlanStep ==
    \/ \E new_steps \in StepLists : add_steps(new_steps)
    \/ InvokeAsync
    \/ \E error_occurred \in BOOLEAN : InvokeNextStep(error_occurred)
    \/ PlanReturn
PlanSpec == PlanStart /\ [][PlanStep]_vars

\* a ChatHistory that is constructed and added to
HistoryStart == HistoryInit /\ LoopIdle /\ ChunkIdle /\ InvokeIdle /\ StreamIdle /\ RegistryIdle /\ DecisionIdle /\ PlanIdle /\ FilterIdle /\ ConversationIdle /\ FunctionStreamIdle /\ ResponseIdle /\ PromptIdle
HistoryStep == \E msg \in AddedMessages : AddMessage(msg)
HistorySpec == HistoryStart /\ [][HistoryStep]_vars

\* filters are added to a kernel, then a call stack is built and called
FilterStart == FilterInit /\ LoopIdle /\ ChunkIdle /\ InvokeIdle /\ StreamIdle /\ RegistryIdle /\ DecisionIdle /\ PlanIdle /\ HistoryIdle /\ ConversationIdle /\ FunctionStreamIdle /\ ResponseIdle /\ PromptIdle
FilterStep ==
    \/ \E filter_type \in FilterTypes : add_filter(filter_type)
    \/ \E filter_type \in FilterTypes : ConstructCallStack(filter_type)
    \/ CallFilter
    \/ CallInner
    \/ FilterReturns
    \/ StackReturns
FilterSpec == FilterStart /\ [][FilterStep]_vars

\* calls of add_filter and remove_filter on one kernel
FilterEditStep ==
    \/ \E filter_type \in FilterTypes : add_filter(filter_type)
    \/ \E filter_type \in FilterTypes \cup {None}, filter_id \in FilterIds, position \in Positions : remove_filter(filter_type, filter_id, position)
FilterEditSpec == FilterStart /\ [][FilterEditStep]_vars

\* one invocation of a prompt function
PromptStart == PromptInit /\ LoopIdle /\ ChunkIdle /\ InvokeIdle /\ StreamIdle /\ RegistryIdle /\ DecisionIdle /\ PlanIdle /\ HistoryIdle /\ FilterIdle /\ ConversationIdle /\ FunctionStreamIdle /\ ResponseIdle
PromptStep ==
    \/ PromptInvoke
    \/ \E rendered \in BOOLEAN : RenderReturns(rendered)
    \/ \E completed \in BOOLEAN : ServiceReturns(completed)
PromptSpec == PromptStart /\ [][PromptStep]_vars

\* one call of step_conversation
ConversationStart == ConversationInit /\ LoopIdle /\ ChunkIdle /\ InvokeIdle /\ StreamIdle /\ RegistryIdle /\ DecisionIdle /\ PlanIdle /\ HistoryIdle /\ FilterIdle /\ FunctionStreamIdle /\ ResponseIdle /\ PromptIdle
ConversationStep ==
    \/ StepConversation
    \/ \E validation_result \in ToolValidationResult, called_names \in ToolNameLists :
          ExecutePlan(validation_result, called_names)
    \/ \E update_successful \in BOOLEAN : CallPlugin(update_successful)
    \/ TerminalPlugin
    \/ NextPlan
    \/ RetriesExhausted
ConversationSpec == ConversationStart /\ [][ConversationStep]_vars

\* the coroutine is run to its end: a step that can be taken is taken
ConversationLiveSpec == ConversationSpec /\ WF_vars(ConversationStep)

\* one call of invoke_stream, iterated to its end
InvokeStreamStart == InvokeStreamInit /\ LoopIdle /\ ChunkIdle /\ StreamIdle /\ RegistryIdle /\ DecisionIdle /\ PlanIdle /\ HistoryIdle /\ FilterIdle /\ ConversationIdle /\ ResponseIdle /\ PromptIdle
InvokeStreamStep ==
    \/ InvokeStreamGather
    \/ StreamFunctionYields
    \/ StreamFunctionRaises
    \/ StreamFunctionEnds
InvokeStreamSpec == InvokeStreamStart /\ [][InvokeStreamStep]_vars

\* a streaming response whose choices are parsed one after the other
ResponseStart == ResponseInit /\ LoopIdle /\ ChunkIdle /\ InvokeIdle /\ StreamIdle /\ RegistryIdle /\ DecisionIdle /\ PlanIdle /\ HistoryIdle /\ FilterIdle /\ ConversationIdle /\ FunctionStreamIdle /\ PromptIdle
ResponseStep == \E choice \in Choices(Len(parsed_deltas) + 1) : ParseChoice(choice)
ResponseSpec == ResponseStart /\ [][ResponseStep]_vars

(***************************************************************************)
(* Vocabulary of the properties of the auto-invoke loop.                    *)
(***************************************************************************)
AssistantPositions ==
    {p \in 1..Len(chat_history) : chat_history[p].role = "assistant"}

ToolPositions ==
    {p \in 1..Len(chat_history) : chat_history[p].role = "tool"}

\* the function-call items of a message, of the message at position p
CallItems(items) == SelectSeq(items, LAMBDA item : item.kind = "call")
CallsAt(p) == CallItems(chat_history[p].items)

\* an invocation of the last round set the terminate flag
Terminated == \E i \in 1..Len(tasks) : tasks[i] = "terminate"

\* the tool messages that directly follow position p
ToolRun(p) ==
    LET stops == {q \in (p + 1)..Len(chat_history) : chat_history[q].role # "tool"}
    IN  {q \in (p + 1)..Len(chat_history) : \A r \in stops : q < r}

\* the round of the assistant message at p is over: its invocations are not
\* the ones being awaited
Settled(p) == ~(pc = "gathering" /\ p = Len(chat_history))

\* the position of the assistant message of the last round that ran tools
LastRoundPosition ==
    LET ps == {p \in AssistantPositions : CallsAt(p) # <<>>}
    IN  CHOOSE p \in ps : \A q \in ps : q <= p

\* a round that ran tools is over and tasks holds its outcomes
RoundOver == pc # "gathering" /\ tasks # <<>>

AutoInvoke == function_choice_behavior = "auto"

\* every answer of the service so far requested a function, no call terminated
AlwaysToolCalls ==
    /\ \A p \in AssistantPositions : CallsAt(p) # <<>>
    /\ CallItems(returned.message.items) # <<>>
    /\ ~Terminated

C2_FinalSendWithoutTools ==
    /\ \A i \in 1..Len(sends) : sends[i].phase = "final" => ~sends[i].tools
    /\ (pc = "returned" /\ sends # <<>> /\ sends[Len(sends)].phase = "final")
          => CallItems(returned.message.items) = <<>>

\* C3: call/result id correspondence.  After a round, the history holds
\* exactly one tool-result message per function-call id of the assistant
\* response of that round, and no tool-result message for any other id.
C3_IdCorrespondence ==
    /\ \A p \in AssistantPositions :
          Settled(p) =>
             LET calls == CallsAt(p)
                 run == ToolRun(p)
             IN  /\ \A j \in 1..Len(calls) :
                       Cardinality({q \in run :
                           /\ Len(chat_history[q].items) = 1
                           /\ chat_history[q].items[1].kind = "result"
                           /\ chat_history[q].items[1].id = calls[j].id}) = 1
                 /\ \A q \in run :
                       \E j \in 1..Len(calls) :
                           chat_history[q].items[1].id = calls[j].id
    /\ \A q \in ToolPositions :
          \E p \in 1..(q - 1) :
              /\ chat_history[p].role = "assistant"
              /\ \A r \in (p + 1)..q : chat_history[r].role = "tool"

C3_Witness ==
    /\ RoundOver
    /\ Len(function_calls) = 2
    /\ function_calls[1].id # function_calls[2].id
    /\ Cardinality(ToolRun(LastRoundPosition)) = 2

C5_Barrier ==
    pc # "gathering" => \A i \in 1..Len(tasks) : tasks[i] # "pending"

C5_Witness ==
    /\ pc = "returned"
    /\ Len(tasks) = 2
    /\ tasks[2] = "terminate"
    /\ overtaken

\* C6: malformed-arguments recovery.  A round with a function call whose
\* arguments cannot be parsed does not raise; the history gets a tool-result
\* message with the id and the function name of that call and the text
\* MalformedText, the other calls of the response get their results, and
\* the round counter advances by exactly one.
C6_MalformedRecovery ==
    (RoundOver /\ \E i \in 1..Len(tasks) : tasks[i] = "malformed") =>
        LET p == LastRoundPosition
            calls == CallsAt(p)
        IN
        /\ Len(calls) = Len(tasks)
        /\ \A j \in 1..Len(calls) :
              /\ p + j <= Len(chat_history)
              /\ chat_history[p + j] = ChatMessageContent("tool",
                    <<[kind |-> "result",
                       id |-> calls[j].id,
                       name |-> calls[j].name,
                       body |-> IF tasks[j] = "malformed"
                                THEN MalformedText ELSE "result"]>>)
        /\ Terminated => (pc = "returned" /\ request_index = tool_rounds - 1)
        /\ ~Terminated => (pc # "start" /\ request_index = tool_rounds)

C6_Witness ==
    /\ RoundOver
    /\ pc = "await_loop"
    /\ Len(tasks) = 1
    /\ tasks[1] = "malformed"
    /\ chat_history[Len(chat_history)].items[1].body = MalformedText
    /\ request_index = 1

\* C7: forced single response.  With auto-invoke enabled and more than one
\* response requested, every send of the loop asks for one response.
C7_ForcedSingleResponse ==
    (AutoInvoke /\ number_of_responses > 1) =>
        \A i \in 1..Len(sends) : sends[i].n = 1

\* C8: end-to-end scenario.  From a history of one user message, when the
\* first send returns one function call and the second send returns a text
\* without function calls, the call returns that second message and the
\* history has grown by the assistant tool-call message, the tool-result
\* message and the final assistant message, in that order.
C8_EndToEnd ==
    ( /\ AutoInvoke
      /\ pc = "returned"
      /\ Len(sends) = 2
      /\ Len(chat_history) >= 2
      /\ Len(CallsAt(2)) = 1
      /\ CallItems(returned.message.items) = <<>> )
    => /\ Len(chat_history) = 4
       /\ chat_history[2].role = "assistant"
       /\ chat_history[3].role = "tool"
       /\ chat_history[4] = returned.message

\* C9: every response of a send of the loop is in the history.  On every
\* return path the first completion returned is the last assistant message
\* of the history, and the history holds one assistant message per send.
C9_ReturnedIsLastAssistant ==
    (AutoInvoke /\ pc = "returned") =>
        /\ Cardinality(AssistantPositions) = Len(sends)
        /\ \E p \in AssistantPositions :
              /\ chat_history[p] = returned.message
              /\ \A q \in AssistantPositions : q <= p

\* the position of the last assistant message of the history
LastAssistant == CHOOSE p \in AssistantPositions : \A q \in AssistantPositions : q <= p

\* C18: auto-invoke disallowed.  When function_choice_behavior is absent or
\* its auto_invoke_kernel_functions is false, the call makes exactly one
\* send and returns the completions of that send as they came, function-call
\* items included; no kernel function is executed and the history is left
\* unchanged.
C18_AutoInvokeDisallowed ==
    (~AutoInvoke /\ pc # "start") =>
        /\ Len(sends) = 1
        /\ tool_rounds = 0
        /\ tasks = <<>>
        /\ chat_history = <<UserMessage>>
        /\ pc = "returned" => (returned = completions /\ returned # NoCompletions)

C18_Witness ==
    /\ function_choice_behavior = "manual"
    /\ kernel
    /\ pc = "returned"
    /\ Len(CallItems(returned.message.items)) = 2
    /\ chat_history = <<UserMessage>>

\* C19: no tool calls means done.  When the response of a round has no
\* function-call item, the call has returned the completions of that round:
\* that response is the last message of the history, no send and no
\* invocation came after it.
C19_NoToolCallsDone ==
    (AssistantPositions # {} /\ CallsAt(LastAssistant) = <<>>) =>
        /\ pc = "returned"
        /\ returned = completions
        /\ returned.message = chat_history[LastAssistant]
        /\ LastAssistant = Len(chat_history)
        /\ Len(sends) = Cardinality(AssistantPositions)
        /\ tool_rounds = Cardinality(AssistantPositions) - 1

C19_Witness ==
    /\ pc = "returned"
    /\ Cardinality(AssistantPositions) = 2
    /\ CallsAt(LastAssistant) = <<>>
    /\ tool_rounds = 1
    /\ Len(sends) = 2

\* C20: terminate.  When an invocation of a round has signalled terminate
\* and the invocations of the round are over, the call has returned the
\* completions of that round, and no send, the final one included, was made
\* after the send of that round.
C20_Terminate ==
    (Terminated /\ pc # "gathering") =>
        /\ pc = "returned"
        /\ returned = completions
        /\ returned.message = chat_history[LastRoundPosition]
        /\ Len(sends) = tool_rounds
        /\ Len(sends) = Cardinality(AssistantPositions)

C20_Witness ==
    /\ Terminated
    /\ pc = "returned"
    /\ maximum_auto_invoke_attempts = 2
    /\ tool_rounds = 1
    /\ Len(tasks) = 2
    /\ tasks[1] = "terminate"
    /\ tasks[2] = "value"
\* the sends the service answered before the failed one: every send handed
\* to the service but the last, or every one of them when the failed send
\* raised while formatting the history and was never handed over
AnsweredSends ==
    IF prepare_chat_history_for_request(chat_history) = "ok"
    THEN Len(sends) - 1 ELSE Len(sends)

\* C21: send failure.  When a send fails, the error leaves the call, the
\* history keeps what the rounds before it appended (nothing is rolled back
\* and nothing is appended for the failed round), and no send is made after
\* the failed one: there are as many responses in the history as sends
\* before it.
C21_SendFailure ==
    (pc = "raised" /\ sends # <<>>) =>
        /\ returned = NoCompletions
        /\ chat_history[1] = UserMessage
        /\ Cardinality(AssistantPositions) = (IF AutoInvoke THEN AnsweredSends ELSE 0)
        /\ tool_rounds = Cardinality(AssistantPositions)
        /\ \A p \in AssistantPositions :
              /\ CallsAt(p) # <<>>
              /\ Cardinality(ToolRun(p)) = Len(CallsAt(p))
        /\ Len(chat_history) = 1 + Cardinality(AssistantPositions)
                                  + Cardinality(ToolPositions)

C21_Witness ==
    /\ pc = "raised"
    /\ Len(sends) = 2
    /\ sends[2].phase = "loop"
    /\ Len(chat_history) = 3
    /\ chat_history[2].role = "assistant"
    /\ chat_history[3].role = "tool"

\* C22: streaming mode runs the same loop.  With auto-invoke enabled and
\* functions to offer, the streaming call offers the configured tools on its
\* sends.
C22_StreamingRunsLoop ==
    (AutoInvoke /\ kernel /\ available_functions) =>
        \A i \in 1..Len(sends) : sends[i].tools

(***************************************************************************)
(* Properties of the streaming chunk combination.                           *)
(***************************************************************************)
\* the two chunks of the last __add__ disagree in a field that must agree
Incompatible(a, b) ==
    \/ a.choice_index # b.choice_index
    \/ a.ai_model_id # b.ai_model_id
    \/ a.encoding # b.encoding
    \/ (a.role # None /\ b.role # None /\ a.role # b.role)

\* C10: chunk compatibility.  Combining two chunks raises the content
\* addition error, and yields no combined chunk, whenever their
\* choice_index, ai_model_id or encoding differ or both have a role and the
\* roles differ; in every other case combining succeeds.
C10_ChunkCompatibility ==
    outcome # "none" =>
        /\ Incompatible(prev, incoming) =>
              (outcome = "ContentAdditionException" /\ acc = prev)
        /\ ~Incompatible(prev, incoming) => outcome = "ok"

\* the text of a chunk, a missing content being the empty text
TextOf(chunk) == IF chunk.content.none THEN <<>> ELSE chunk.content.text

\* the texts of a sequence of chunks, joined in the order of the sequence
RECURSIVE ConcatTexts(_)
ConcatTexts(chunks) ==
    IF chunks = <<>> THEN <<>>
    ELSE TextOf(Head(chunks)) \o ConcatTexts(Tail(chunks))

\* the last __add__ combined two OpenAI chunks
OpenAICombined == cls = "openai" /\ outcome = "ok"

\* C11: text concatenation order.  The content of a combined chunk is the
\* content of the left operand followed by that of the right operand, a
\* missing content counting as the empty text; the content of a fold is the
\* contents of its chunks joined in arrival order.  The operation is not
\* commutative: C11_Witness is a fold whose operands, swapped, give another
\* text.
C11_TextConcatenation ==
    OpenAICombined =>
        /\ ~acc.content.none
        /\ acc.content.text = TextOf(prev) \o TextOf(incoming)
        /\ acc.content.text = ConcatTexts(stream)

C11_Witness ==
    /\ OpenAICombined
    /\ Len(stream) = 3
    /\ acc.content.text = <<"Hel", "lo", "Hel">>
    /\ TextOf(prev) \o TextOf(incoming) # TextOf(incoming) \o TextOf(prev)

\* the chunk without content, role, finish reason and tool calls that has the
\* choice index, the model id and the encoding of a chunk
EmptyLike(chunk) ==
    [choice_index |-> chunk.choice_index, ai_model_id |-> chunk.ai_model_id,
     encoding |-> chunk.encoding, role |-> None, content |-> NoContent,
     finish_reason |-> None, tool_calls |-> <<>>]

\* C12: identity on a single chunk.  Combining a chunk with the empty chunk
\* of its choice index, model id and encoding succeeds and yields a chunk
\* equal to it in every field.
C12_EmptyChunkIdentity ==
    (cls = "openai" /\ outcome # "none" /\ incoming = EmptyLike(prev)) =>
        (outcome = "ok" /\ acc = prev)

\* the accumulation the fragments of a chunk are to get: a fragment without
\* id, or with the id of the call seen last, extends the arguments of that
\* call; any other fragment starts a call, which is then the call seen last
RECURSIVE Accumulate(_, _)
Accumulate(calls, fragments) ==
    IF fragments = <<>> THEN calls
    ELSE LET f == Head(fragments)
             n == Len(calls)
         IN  IF n > 0 /\ (f.id = None \/ f.id = calls[n].id)
             THEN Accumulate(
                      [calls EXCEPT ![n] = [id |-> calls[n].id,
                                            arguments |-> calls[n].arguments \o f.arguments]],
                      Tail(fragments))
             ELSE Accumulate(Append(calls, f), Tail(fragments))

\* calls that each have an id of their own
ProperCalls(calls) ==
    /\ \A i \in 1..Len(calls) : calls[i].id # None
    /\ \A i, j \in 1..Len(calls) : calls[i].id = calls[j].id => i = j

\* C13: tool-call fragment accumulation.  When a chunk with tool-call
\* fragments is combined onto a running chunk, a fragment without id or with
\* the id of the call seen last extends that call, a fragment with a new id
\* starts a call, and the id-less fragments after it, those of the same
\* chunk included, extend that new call.
C13_FragmentAccumulation ==
    ( /\ OpenAICombined
      /\ incoming.tool_calls # <<>>
      /\ ProperCalls(Accumulate(prev.tool_calls, incoming.tool_calls)) )
    => acc.tool_calls = Accumulate(prev.tool_calls, incoming.tool_calls)

\* the ids the fragments of a sequence of chunks carry, in arrival order
RECURSIVE StreamIds(_)
StreamIds(chunks) ==
    IF chunks = <<>> THEN <<>>
    ELSE LET tcs == Head(chunks).tool_calls
         IN  SelectSeq([i \in 1..Len(tcs) |-> tcs[i].id], LAMBDA id : id # None)
             \o StreamIds(Tail(chunks))

\* a sequence without the repetitions of its elements
RECURSIVE FirstAppearance(_, _)
FirstAppearance(seen, ids) ==
    IF ids = <<>> THEN seen
    ELSE IF \E i \in 1..Len(seen) : seen[i] = Head(ids)
         THEN FirstAppearance(seen, Tail(ids))
         ELSE FirstAppearance(Append(seen, Head(ids)), Tail(ids))

\* the first tool-call fragment of the stream carries an id
StartsWithId(chunks) ==
    \A k \in 1..Len(chunks) :
        (/\ chunks[k].tool_calls # <<>>
         /\ \A j \in 1..(k - 1) : chunks[j].tool_calls = <<>>)
        => chunks[k].tool_calls[1].id # None

\* C14: the tool-call list of a fold.  After a fold of compatible chunks
\* whose first fragment carries an id, the tool-call list has each call id
\* once, in order of first appearance, and no entry with a missing id.
C14_ToolCallList ==
    (OpenAICombined /\ StartsWithId(stream)) =>
        [i \in 1..Len(acc.tool_calls) |-> acc.tool_calls[i].id]
            = FirstAppearance(<<>>, StreamIds(stream))

\* the first finish_reason of a sequence of chunks
RECURSIVE FirstFinish(_)
FirstFinish(chunks) ==
    IF chunks = <<>> THEN None
    ELSE IF Head(chunks).finish_reason # None THEN Head(chunks).finish_reason
         ELSE FirstFinish(Tail(chunks))

\* C15: finish_reason is first-wins.  The finish_reason of a combined chunk
\* is that of the left operand when it has one, otherwise that of the right
\* operand; the finish_reason of a fold is the first one of its chunks, so
\* no later chunk changes it.
C15_FinishReasonFirstWins ==
    OpenAICombined =>
        /\ acc.finish_reason =
              (IF prev.finish_reason # None THEN prev.finish_reason
               ELSE incoming.finish_reason)
        /\ acc.finish_reason = FirstFinish(stream)

C15_Witness ==
    /\ OpenAICombined
    /\ Len(stream) = 3
    /\ stream[2].finish_reason = "stop"
    /\ stream[3].finish_reason = "length"
    /\ acc.finish_reason = "stop"

(***************************************************************************)
(* Properties of KernelFunction.invoke.                                     *)
(***************************************************************************)
\* C16: invoke never propagates an exception of the callable or of the
\* completion service.  Once self.function has been called no exception
\* leaves invoke, and when self.function raised, invoke returns a
\* FunctionResult whose value is None and whose metadata holds that
\* exception and the arguments used.
C16_InvokeNeverPropagates ==
    called > 0 =>
        /\ invoke_pc = "returned"
        /\ invoke_raised = None
        /\ callable_raised # None =>
              /\ function_result.value = None
              /\ function_result.error = callable_raised
              /\ function_result.arguments = function_arguments

C16_Witness ==
    /\ invoke_pc = "returned"
    /\ is_prompt
    /\ callable_raised = "ServiceResponseException"
    /\ function_result.error = "ServiceResponseException"
    /\ "x" \in function_result.arguments

\* a required parameter of the function's own is absent from the kernel_arguments
MissingRequired ==
    \E i \in 1..Len(parameters) :
        /\ parameters[i].required
        /\ parameters[i].name \in {"x", "y"}
        /\ kernel_arguments[parameters[i].name] = Absent

\* C17: missing required argument.  A call of invoke on a native function
\* with a required parameter absent from the arguments does not raise: it
\* returns a FunctionResult without value and with the error in its
\* metadata, and self.function is not called.
C17_MissingArgumentRecovered ==
    (~is_prompt /\ MissingRequired /\ invoke_pc \notin {"idle", "start"}) =>
        /\ invoke_pc = "returned"
        /\ invoke_raised = None
        /\ function_result.value = None
        /\ function_result.error # None
        /\ called = 0

(***************************************************************************)
(* Properties of the function registry.                                     *)
(***************************************************************************)
\* the registered descriptors with a plugin name and a function name
Entries(p, n) ==
    {i \in 1..Len(semantic_functions[p]) : semantic_functions[p][i] = n}
    \cup {-i : i \in {j \in 1..Len(native_functions[p]) : native_functions[p][j] = n}}

\* C23: registry uniqueness.  After any sequence of add_function calls no
\* two registered descriptors have the same plugin name and function name.
C23_RegistryUniqueness ==
    \A p \in PluginNames, n \in FunctionNames : Cardinality(Entries(p, n)) <= 1

\* a registered function that an include filter and an exclude filter match
MatchedByBoth(p, n) ==
    /\ Entries(p, n) # {}
    /\ \/ p \in list_filters.included_plugins
       \/ <<p, "-", n>> \in list_filters.included_functions
    /\ \/ p \in list_filters.excluded_plugins
       \/ <<p, "-", n>> \in list_filters.excluded_functions

\* C24: exclusion precedence.  A function matched by an include filter and
\* by an exclude filter, over plugin names or function names, is not among
\* the functions offered to the model.
C24_ExclusionPrecedence ==
    listed =>
        \A p \in PluginNames, n \in FunctionNames :
            MatchedByBoth(p, n) =>
                \A view \in offered_functions :
                    ~(view.plugin_name = p /\ view.name = n)

C24_Witness ==
    /\ listed
    /\ MatchedByBoth("math", "Add")
    /\ list_filters.included_plugins = {"math"}
    /\ list_filters.excluded_functions = {<<"math", "-", "Add">>}
    /\ \E view \in offered_functions : view.plugin_name = "math" /\ view.name = "Now"
    /\ \A view \in offered_functions : ~(view.plugin_name = "math" /\ view.name = "Add")

(***************************************************************************)
(* Properties of _should_return_completions_response.                       *)
(***************************************************************************)
\* the cases of test_should_return_completions_response (lines 186-231)
TestCases ==
    {[completions |-> <<>>, auto |-> FALSE, expected |-> TRUE],
     [completions |-> <<"chat">>, auto |-> TRUE, expected |-> TRUE],
     [completions |-> <<"chat_no_tool_calls">>, auto |-> TRUE, expected |-> TRUE],
     [completions |-> <<"streaming">>, auto |-> TRUE, expected |-> TRUE],
     [completions |-> <<"streaming">>, auto |-> FALSE, expected |-> TRUE],
     [completions |-> <<"chat", "streaming">>, auto |-> TRUE, expected |-> TRUE],
     [completions |-> <<"chat_tool_calls">>, auto |-> TRUE, expected |-> FALSE]}

PlanDone ==
    /\ plan_pc \in {"returned", "raised"}
    /\ function = "none"
    /\ plan_error # "KernelException"

\* C26: for a plan with n >= 0 steps, given at construction or added
\* through add_steps, invoke_async runs step 0 to step n-1 exactly once each
\* in that order, feeding each step's result into the next, and terminates
\* with next_step_index = n; it never indexes past the last step.
C26_PlanExecution ==
    PlanDone =>
        /\ plan_pc = "returned"
        /\ executed = [i \in 1..Len(_steps) |-> i - 1]
        /\ _state = _steps
        /\ _next_step_index = Len(_steps)
        /\ plan_error # "IndexError"

(***************************************************************************)
(* Properties of ChatHistory.                                               *)
(***************************************************************************)
\* the system message of the constructor, if one was given
GivenSystemMessage ==
    IF system_message = "none"
    THEN <<>>
    ELSE <<[role |-> "system", items |-> <<TextContent(system_message)>>]>>

\* C27: the messages of a ChatHistory are in insertion order: the system
\* message given at construction first, the given messages in order, then
\* the message of every add call in call order, one message per call.
C27_InsertionOrder ==
    history_pc = "constructed" =>
        /\ messages = GivenSystemMessage \o given_messages \o added_messages
        /\ Len(messages) = Len(GivenSystemMessage) + Len(given_messages)
                               + Len(added_messages)

C27_Witness ==
    /\ history_pc = "constructed"
    /\ system_message # "none"
    /\ Len(given_messages) = 2
    /\ given_messages[1] # given_messages[2]
    /\ Len(added_messages) = 2
    /\ added_messages[1].role = "assistant"
    /\ added_messages[2].role = "tool"
    /\ messages[1].role = "system"
    /\ messages[4].role = "assistant"
    /\ messages[5].role = "tool"

(***************************************************************************)
(* Properties of the filter call stack.                                     *)
(***************************************************************************)
\* the filters added to the type of the call stack: f1, ..., fn
AddedToType == add_order[run_type]

\* f1's first part, ..., fn's first part, the inner function, fn's second
\* part, ..., f1's second part
ExpectedTrace ==
    LET n == Len(AddedToType)
    IN  [i \in 1..n |-> <<"pre", AddedToType[i]>>]
            \o <<(<<"inner", 0>>)>>
            \o [i \in 1..n |-> <<"post", AddedToType[n + 1 - i]>>]

\* C28: for filters added in the order f1..fn to one filter type, the call
\* stack of construct_call_stack runs the pre-next parts in the order f1,
\* ..., fn, then the inner function exactly once, then the post-next parts
\* in the order fn, ..., f1.
C28_FilterCallOrder ==
    /\ filter_pc \in {"running", "done"} =>
          /\ Len(call_trace) <= Len(ExpectedTrace)
          /\ call_trace = SubSeq(ExpectedTrace, 1, Len(call_trace))
    /\ filter_pc = "done" => call_trace = ExpectedTrace

C28_Witness ==
    /\ filter_pc = "done"
    /\ run_type = "function_invocation"
    /\ add_order["function_invocation"] = <<1, 3>>
    /\ add_order["prompt_rendering"] = <<2>>
    /\ call_trace = << <<"pre", 1>>, <<"pre", 3>>, <<"inner", 0>>,
                       <<"post", 3>>, <<"post", 1>> >>

(***************************************************************************)
(* Properties of GuidedConversation.step_conversation.                      *)
(***************************************************************************)
TerminalNames == {"send_message_to_user", "end_conversation"}

\* a terminal plugin was executed for the current plan
TerminalExecuted ==
    \E i \in DOMAIN plugins_executed : plugins_executed[i].name \in TerminalNames

\* what holds of every return of step_conversation
ReturnsAsStated ==
    gc_pc = "returned" =>
        /\ \/ TerminalExecuted
           \/ current_failed_decision_attempts >= 2
        /\ ~TerminalExecuted =>
              /\ current_failed_decision_attempts >= 2
              /\ gc_output.is_conversation_over
        /\ resource_increments = 1

\* C29: step_conversation always terminates: it returns when a terminal
\* plugin is called or when the failed decision attempts reach
\* MAX_DECISION_RETRIES, then with is_conversation_over = True, and every
\* return increments the resource counter exactly once.
C29_StepTerminates ==
    /\ []ReturnsAsStated
    /\ <>(gc_pc = "returned")

\* the place of a plugin in the order of execution
ExecutionRank(plugin_name) ==
    IF plugin_name = "update_artifact_field" THEN 1
    ELSE IF plugin_name = "update_agenda" THEN 2
    ELSE 3

\* C30: in one conversation step at most one terminal plugin is executed,
\* send_message before end_conversation when the model calls both, and all
\* regular plugins called in the plan (update_artifact before update_agenda)
\* are executed before the terminal plugin.
C30_TerminalPriority ==
    /\ Cardinality({i \in DOMAIN plugins_executed :
                       plugins_executed[i].name \in TerminalNames}) <= 1
    /\ \A i, j \in DOMAIN plugins_executed :
          i < j => ExecutionRank(plugins_executed[i].name)
                       <= ExecutionRank(plugins_executed[j].name)
    /\ (gc_pc = "returned" /\ TerminalExecuted) =>
          /\ plugins_executed[Len(plugins_executed)].name =
                (IF \E k \in DOMAIN tool_names : tool_names[k] = "send_message_to_user"
                 THEN "send_message_to_user"
                 ELSE "end_conversation")
          /\ \A k \in DOMAIN tool_names :
                tool_names[k] \notin TerminalNames =>
                    Cardinality({i \in DOMAIN plugins_executed :
                        plugins_executed[i] = [name |-> tool_names[k], position |-> k]}) = 1

C30_Witness ==
    /\ gc_pc = "returned"
    /\ tool_names = <<"end_conversation", "update_agenda", "send_message_to_user",
                      "update_artifact_field">>
    /\ plugins_executed = <<[name |-> "update_artifact_field", position |-> 4],
                            [name |-> "update_agenda", position |-> 2],
                            [name |-> "send_message_to_user", position |-> 3]>>
    /\ gc_output = [ai_message |-> "message", is_conversation_over |-> FALSE]

(***************************************************************************)
(* Properties of KernelFunction.invoke_stream.                              *)
(***************************************************************************)
\* the positions of the FunctionResults among what was yielded
ResultPositions == {i \in DOMAIN stream_msgs : stream_msgs[i].kind = "FunctionResult"}

\* C31: invoke_stream yields the k partial results of the stream function;
\* if the stream function raises, they are followed by exactly one
\* FunctionResult with value None and the error in its metadata, after which
\* the stream has ended; without a stream function invoke_stream fails
\* before yielding anything.
C31_StreamErrorResult ==
    invoke_pc \in {"stream_start", "streaming", "ended", "raised"} =>
        /\ \A i \in DOMAIN stream_msgs \ ResultPositions :
              stream_msgs[i] = [kind |-> "partial", value |-> i]
        /\ ResultPositions \subseteq {Len(stream_msgs)}
        /\ ResultPositions # {} =>
              /\ invoke_pc = "ended"
              /\ stream_msgs[Len(stream_msgs)].value.value = None
              /\ stream_msgs[Len(stream_msgs)].value.error = "Exception"
        /\ (invoke_pc \in {"ended", "raised"} /\ callable_raised # None) =>
              /\ invoke_pc = "ended"
              /\ ResultPositions = {Len(stream_msgs)}
        /\ (invoke_pc = "ended" /\ callable_raised = None) => ResultPositions = {}
        /\ ~stream_function =>
              /\ invoke_pc \in {"stream_start", "raised"}
              /\ stream_msgs = <<>>
              /\ invoke_pc = "raised" => invoke_raised = "ValueError"

C31_Witness ==
    /\ invoke_pc = "ended"
    /\ stream_function
    /\ callable_raised = "Exception"
    /\ Len(stream_msgs) = 3
    /\ stream_msgs[1].kind = "partial"
    /\ stream_msgs[2].kind = "partial"
    /\ stream_msgs[3].kind = "FunctionResult"

(***************************************************************************)
(* Auto-invoke without a kernel.                                            *)
(***************************************************************************)
\* C32: when auto-invoke is enabled and no Kernel is passed,
\* get_chat_message_contents raises before any send is made, and the
\* history and the settings' tools are as the caller gave them.
C32_KernelRequired ==
    (function_choice_behavior = "auto" /\ ~kernel) =>
        /\ pc \in {"start", "raised"}
        /\ sends = <<>>
        /\ chat_history = <<UserMessage>>
        /\ ~tools
        /\ returned = NoCompletions

C32_Witness ==
    /\ pc = "raised"
    /\ function_choice_behavior = "auto"
    /\ ~kernel
    /\ available_functions
    /\ sends = <<>>

(***************************************************************************)
(* Properties of OpenAIChatResponse.parse_choice.                           *)
(***************************************************************************)
RECURSIVE ContentsOfChoice(_, _)
\* the contents of the parsed deltas of choice i from position k on, joined
ContentsOfChoice(i, k) ==
    IF k > Len(parsed_deltas)
    THEN <<>>
    ELSE (IF parsed_deltas[k].index = i /\ ~parsed_deltas[k].content.none
          THEN parsed_deltas[k].content.text
          ELSE <<>>) \o ContentsOfChoice(i, k + 1)

\* the argument fragment delta k carries for (choice i, tool index j)
FragmentOf(i, j, k) ==
    LET d == parsed_deltas[k]
    IN  IF d.index = i /\ ~d.tool_calls.none
                       /\ \E a \in DOMAIN d.tool_calls.list :
                             /\ d.tool_calls.list[a].index = j
                             /\ ~d.tool_calls.list[a].arguments.none
        THEN <<k>>
        ELSE <<>>

RECURSIVE FragmentsOfTool(_, _, _)
FragmentsOfTool(i, j, k) ==
    IF k > Len(parsed_deltas)
    THEN <<>>
    ELSE FragmentOf(i, j, k) \o FragmentsOfTool(i, j, k + 1)

\* C33: after parsing any sequence of stream deltas, the stored content of
\* choice i is the concatenation, in arrival order, of the delta contents
\* of choice i only, and the stored arguments of tool call (choice i, tool
\* index j) are the concatenation of the argument fragments received for
\* that pair only.
C33_ChoiceIsolation ==
    parse_pc = "parsing" =>
        \A i \in ChoiceIndexes :
            /\ ContentOrEmpty(_parsed_content[i]) = ContentsOfChoice(i, 1)
            /\ \A j \in ToolIndexes :
                  _tool_calls[i].tools[j].arguments = FragmentsOfTool(i, j, 1)

C33_Witness ==
    /\ parse_pc = "parsing"
    /\ Len(parsed_deltas) = 2
    /\ parsed_deltas[1].index = 1
    /\ parsed_deltas[2].index = 1
    /\ _parsed_content[0] = NoContent
    /\ _parsed_content[1] = Content(<<1, 2>>)
    /\ _tool_calls[1].tools[1].arguments = <<1, 2>>
    /\ _tool_calls[1].tools[0].present
    /\ _tool_calls[1].tools[0].arguments = <<2>>
    /\ ~_tool_calls[0].present

(***************************************************************************)
(* Properties of AzureStreamingChatMessageContent.__add__.                  *)
(***************************************************************************)
\* the tool calls of the left operand, each merged with the one of the right
\* operand at its position, or as it is where the right operand has none
PositionWise(left, right) ==
    [i \in 1..Len(left) |->
        IF i <= Len(right) THEN ToolCallAdd(left[i], right[i]) ELSE left[i]]

\* C34: adding two compatible AzureStreamingChatMessageContent chunks of
\* which the first already has tool calls succeeds, and the tool-call list
\* of the sum has, at each position, the tool call of the first chunk merged
\* with that of the second chunk at the same position, or the tool call of
\* the first chunk unchanged where the second has none.
C34_AzureToolCallMerge ==
    ( /\ cls = "azure"
      /\ outcome # "none"
      /\ ~Incompatible(prev, incoming)
      /\ prev.tool_calls # <<>> )
    => /\ outcome = "ok"
       /\ acc.tool_calls = PositionWise(prev.tool_calls, incoming.tool_calls)

(***************************************************************************)
(* Properties of the history the auto-invoke loop hands to the next send.   *)
(***************************************************************************)
\* a round of tool calls has completed without a terminate and its tool
\* messages are the end of the history
RoundCompleted ==
    /\ pc \in {"await_loop", "await_final", "raised"}
    /\ tool_rounds > 0
    /\ chat_history[Len(chat_history)].role = "tool"

\* C35: every history state the auto-invoke loop can produce is accepted by
\* the next send.  After a round in which the assistant message carries two
\* or more function-call items, or a text item together with function
\* calls, and the tool-result messages of the round were appended,
\* _prepare_chat_history_for_request formats the history without raising,
\* so the send of the next round is handed to the service.
C35_HistoryAccepted ==
    RoundCompleted =>
        /\ prepare_chat_history_for_request(chat_history) = "ok"
        /\ Len(sends) = tool_rounds + 1

(***************************************************************************)
(* Associativity of OpenAIStreamingChatMessageContent.__add__.              *)
(***************************************************************************)
\* the fold of three chunks grouped to the right: a + (b + c)
RightGrouped == OpenAIAdd(stream[1], OpenAIAdd(stream[2], stream[3]))

\* C36: chunk combination is associative on compatible chunks.  For chunks
\* a, b, c of one choice, (a + b) + c and a + (b + c) have the same content,
\* the same finish_reason and the same tool-call list: the same ids in the
\* same order with the same accumulated arguments.
C36_Associative ==
    (OpenAICombined /\ Len(stream) = 3) =>
        /\ acc.content = RightGrouped.content
        /\ acc.finish_reason = RightGrouped.finish_reason
        /\ acc.tool_calls = RightGrouped.tool_calls

(***************************************************************************)
(* Properties of add_filter and remove_filter.                              *)
(***************************************************************************)
\* the number of entries of the three lists together
FilterCount(lists) ==
    Len(lists["function_invocation"]) + Len(lists["prompt_rendering"])
        + Len(lists["auto_function_invocation"])

\* C37: remove_filter removes at most one filter entry per call, and when
\* it is called with a filter_type and a filter_id it never removes an entry
\* from the list of another type; add_filter with a filter_type outside the
\* allowed set raises and leaves all three filter lists unchanged.
C37_FilterFrame ==
    /\ filter_call.op = "remove_filter" =>
          /\ FilterCount(filter_lists) >= FilterCount(lists_before) - 1
          /\ FilterCount(filter_lists) <= FilterCount(lists_before)
          /\ (filter_call.filter_type \in ALLOWED_FILTERS /\ filter_call.filter_id # <<>>) =>
                \A t \in ALLOWED_FILTERS \ {filter_call.filter_type} :
                    filter_lists[t] = lists_before[t]
    /\ (filter_call.op = "add_filter" /\ filter_call.filter_type \notin ALLOWED_FILTERS) =>
          /\ filter_error = "ValueError"
          /\ filter_lists = lists_before

(***************************************************************************)
(* Properties of the invocation of a prompt function.                       *)
(***************************************************************************)
\* the prompt was rendered and lines 292-295 have run
PromptRendered ==
    \/ prompt_pc \in {"awaiting", "returned"}
    \/ /\ prompt_pc = "failed"
       /\ \/ service_input # NoServiceInput
          \/ prompt_service = "other" /\ prompt_error = "ValueError"

UserPrompt == [role |-> "user", items |-> <<TextContent(PromptText)>>]
SystemPrompt == [role |-> "system", items |-> <<TextContent(PromptText)>>]

C38_EmptyHistoryWitness ==
    /\ prompt_pc = "awaiting"
    /\ prompt_service = "chat"
    /\ given_history = HistoryArgument("ChatHistory", <<>>)
    /\ caller_history = given_history
    /\ service_input.messages = <<SystemPrompt>>
====
